---- MODULE Spec2Model ----
(***************************************************************************)
(* Model of the embedded-update firmware updater:                          *)
(*   - the updater loop FirmwareUpdater::check / run   (src/src/updater.rs) *)
(*   - the in-memory reference service          (src/src/service/memory.rs) *)
(*   - the Simulator device                   (src/src/device/simulator.rs) *)
(*   - the framed serial device and service   (src/src/device/serial.rs,    *)
(*                                             src/src/service/serial.rs)   *)
(* Every updater is a process p; its local variables are functions of p so *)
(* that one set of actions serves a single updater as well as the two      *)
(* updaters of the serial chain (src/tests/serial.rs).                     *)
(***************************************************************************)
EXTENDS Integers, Sequences, FiniteSets, TLC

VARIABLES
    pc,          \* pc[p]: position of updater p inside check()
    state,       \* state[p]: UpdaterState (current_version, next_offset, next_version)
    next_state,  \* next_state[p]: the per-iteration clone of state
    poll_opt,    \* poll_opt[p]: Option<u32>, seconds to sleep after the iteration
    status,      \* status[p]: the Status built for the current iteration
    cmd,         \* cmd[p]: the Command being applied to the device
    result,      \* result[p]: what run() returned (None while running)
    cfg,         \* cfg[p]: UpdaterConfig (timeout_ms, backoff_ms)
    svc,         \* svc[p]: the UpdateService owned by updater p
    dev,         \* dev[p]: the FirmwareDevice driven by updater p
    link,        \* link[d]: frames in flight on the serial link, per direction
    devlog,      \* devlog[p]: device operations invoked so far, in order
    sent,        \* sent[p]: Status values handed to service.request, in order
    cmds,        \* cmds[p]: outcome of each race (a Command, TimedOut or ServiceErr)
    sleeps       \* sleeps[p]: arguments of the delay_ms calls after iterations

vars == <<pc, state, next_state, poll_opt, status, cmd, result, cfg, svc, dev,
          link, devlog, sent, cmds, sleeps>>

(***************************************************************************)
(* Bounds of the model.                                                    *)
(***************************************************************************)
MaxIter == 3        \* iterations of the loop under the arbitrary service
MaxFwLen == 4       \* firmware lengths 0..MaxFwLen for the in-memory service
MaxMtu == 3         \* device MTUs 1..MaxMtu for the generic device

(***************************************************************************)
(* Option<T> and Result<T, ()> are sequences of length 0 or 1.             *)
(***************************************************************************)
None == <<>>
Some(x) == <<x>>
IsSome(o) == Len(o) = 1
unwrap_or(o, d) == IF IsSome(o) THEN o[1] ELSE d
Min(a, b) == IF a <= b THEN a ELSE b
Last(s) == s[Len(s)]

\* u32 values are written in base 65536 where they are taken apart: 2^32 is
\* Limb * Limb.
Limb == 65536

\* Version byte strings: "1", "2", "3" and one of 17 bytes, too long for
\* the 16-byte version buffer of the devices.
V1 == <<49>>
V2 == <<50>>
V3 == <<51>>
VLong == [i \in 1..17 |-> 65]

\* Capacity of heapless::Vec<u8, 16>, the Version type of both devices.
VersionCap == 16

(***************************************************************************)
(* protocol.rs: Status and Command constructors.                           *)
(***************************************************************************)
Status_first(version, mtu, correlation_id) ==
    [version |-> version, mtu |-> mtu, correlation_id |-> correlation_id,
     update |-> None]

Status_update(version, mtu, offset, next_version, correlation_id) ==
    [version |-> version, mtu |-> mtu, correlation_id |-> correlation_id,
     update |-> Some([version |-> next_version, offset |-> offset])]

new_wait(poll, correlation_id) ==
    [tag |-> "Wait", correlation_id |-> correlation_id, poll |-> poll]

new_sync(version, poll, correlation_id) ==
    [tag |-> "Sync", version |-> version, correlation_id |-> correlation_id,
     poll |-> poll]

new_swap(version, checksum, correlation_id) ==
    [tag |-> "Swap", version |-> version, correlation_id |-> correlation_id,
     checksum |-> checksum]

new_write(version, offset, data, correlation_id) ==
    [tag |-> "Write", version |-> version, correlation_id |-> correlation_id,
     offset |-> offset, data |-> data]

(***************************************************************************)
(* The postcard wire format used by the framed serial transport            *)
(* (device/serial.rs and service/serial.rs: to_slice, from_bytes) for the  *)
(* serde derives of protocol.rs: integers are LEB128 varints, an Option is *)
(* a byte 0 or a byte 1 followed by the value, a byte string is its length *)
(* followed by the bytes, an enum is the index of the variant followed by  *)
(* its fields.                                                             *)
(***************************************************************************)
RECURSIVE varint(_)
varint(n) == IF n < 128 THEN <<n>> ELSE <<(n % 128) + 128>> \o varint(n \div 128)

\* The serializer hands the output buffer one piece at a time: a tag
\* byte, a whole varint, or the bytes of a byte string.  An encoding is
\* the sequence of its pieces.
ser_option_u32(o) == IF IsSome(o) THEN <<<<1>>, varint(o[1])>> ELSE <<<<0>>>>
ser_bytes(b) == <<varint(Len(b)), b>>

\* protocol.rs lines 7-19 and 22-30: Status and UpdateStatus, fields in order.
ser_status(s) ==
    ser_bytes(s.version) \o ser_option_u32(s.mtu) \o ser_option_u32(s.correlation_id)
        \o (IF IsSome(s.update)
            THEN <<<<1>>>> \o ser_bytes(s.update[1].version)
                         \o <<varint(s.update[1].offset)>>
            ELSE <<<<0>>>>)

\* protocol.rs lines 64-108: Command, variants Wait, Sync, Write, Swap.
ser_command(c) ==
    CASE c.tag = "Wait" ->
            <<<<0>>>> \o ser_option_u32(c.correlation_id) \o ser_option_u32(c.poll)
      [] c.tag = "Sync" ->
            <<<<1>>>> \o ser_bytes(c.version) \o ser_option_u32(c.correlation_id)
                      \o ser_option_u32(c.poll)
      [] c.tag = "Write" ->
            <<<<2>>>> \o ser_bytes(c.version) \o ser_option_u32(c.correlation_id)
                      \o <<varint(c.offset)>> \o ser_bytes(c.data)
      [] c.tag = "Swap" ->
            <<<<3>>>> \o ser_bytes(c.version) \o ser_option_u32(c.correlation_id)
                      \o ser_bytes(c.checksum)

\* The bytes of an encoding, piece after piece.
RECURSIVE Encoded(_)
Encoded(pieces) ==
    IF pieces = <<>> THEN <<>> ELSE Head(pieces) \o Encoded(Tail(pieces))

\* The output buffer takes a piece whole or not at all: at bytes are
\* written, and the first piece that does not fit ends the encoding with
\* Err, the pieces before it written.
RECURSIVE to_slice_from(_, _, _)
to_slice_from(pieces, buf, at) ==
    IF pieces = <<>> THEN [ok |-> TRUE, buf |-> buf]
    ELSE IF at + Len(Head(pieces)) > Len(buf) THEN [ok |-> FALSE, buf |-> buf]
    ELSE to_slice_from(Tail(pieces),
                       SubSeq(buf, 1, at) \o Head(pieces)
                           \o SubSeq(buf, at + Len(Head(pieces)) + 1, Len(buf)),
                       at + Len(Head(pieces)))

\* postcard::to_slice(value, buf): the encoding overwrites the front of the
\* buffer and leaves the rest as it was; Err when a piece does not fit.
to_slice(pieces, buf) == to_slice_from(pieces, buf, 0)

\* Decoders read buffer b from index i and return the value and the index
\* after it, or Fail.
Fail == [ok |-> FALSE]
Got(val, next) == [ok |-> TRUE, val |-> val, next |-> next]

\* Each decoder hands what it has read to the decoder of the next field.
\* A varint of at most n bytes; the last permitted byte of a u32 may only
\* carry the four high bits.
de_varint_more(byte, r) ==
    IF r.ok THEN Got((byte - 128) + 128 * r.val, r.next) ELSE Fail

RECURSIVE de_varint(_, _, _)
de_varint(b, i, n) ==
    IF i > Len(b) \/ n = 0 THEN Fail
    ELSE IF b[i] < 128
         THEN IF n = 1 /\ b[i] > 15 THEN Fail ELSE Got(b[i], i + 1)
         ELSE de_varint_more(b[i], de_varint(b, i + 1, n - 1))

de_u32(b, i) == de_varint(b, i, 5)

de_some_u32(r) == IF r.ok THEN Got(Some(r.val), r.next) ELSE Fail

de_option_u32(b, i) ==
    IF i > Len(b) THEN Fail
    ELSE IF b[i] = 0 THEN Got(None, i + 1)
    ELSE IF b[i] = 1 THEN de_some_u32(de_u32(b, i + 1))
    ELSE Fail

\* protocol.rs lines 167-174 and 220-235: Bytes borrows len bytes of the buffer.
de_bytes_len(b, n) ==
    IF ~n.ok THEN Fail
    ELSE IF n.next + n.val - 1 > Len(b) THEN Fail
    ELSE Got(SubSeq(b, n.next, n.next + n.val - 1), n.next + n.val)

\* The length of a byte string is a usize varint: at most ten bytes, the
\* tenth carrying one bit (usize of 64 bits).  Lengths past the end of the
\* buffer are all refused alike, and are read as Len(b) + 1.
de_len_more(b, byte, r) ==
    IF r.ok THEN Got(Min((byte - 128) + 128 * r.val, Len(b) + 1), r.next) ELSE Fail

RECURSIVE de_len_varint(_, _, _)
de_len_varint(b, i, n) ==
    IF i > Len(b) \/ n = 0 THEN Fail
    ELSE IF b[i] < 128
         THEN IF n = 1 /\ b[i] > 1 THEN Fail ELSE Got(Min(b[i], Len(b) + 1), i + 1)
         ELSE de_len_more(b, b[i], de_len_varint(b, i + 1, n - 1))

de_len(b, i) == de_len_varint(b, i, 10)

de_bytes(b, i) == de_bytes_len(b, de_len(b, i))

\* UpdateStatus: version, offset.
de_update_offset(v, o) ==
    IF ~o.ok THEN Fail
    ELSE Got(Some([version |-> v.val, offset |-> o.val]), o.next)

de_update_version(b, v) ==
    IF ~v.ok THEN Fail ELSE de_update_offset(v, de_u32(b, v.next))

de_update(b, i) ==
    IF i > Len(b) THEN Fail
    ELSE IF b[i] = 0 THEN Got(None, i + 1)
    ELSE IF b[i] = 1 THEN de_update_version(b, de_bytes(b, i + 1))
    ELSE Fail

\* Status: version, mtu, correlation_id, update.
de_status_update(v, m, c, u) ==
    IF ~u.ok THEN Fail
    ELSE Got([version |-> v.val, mtu |-> m.val, correlation_id |-> c.val,
              update |-> u.val], u.next)

de_status_correlation_id(b, v, m, c) ==
    IF ~c.ok THEN Fail ELSE de_status_update(v, m, c, de_update(b, c.next))

de_status_mtu(b, v, m) ==
    IF ~m.ok THEN Fail
    ELSE de_status_correlation_id(b, v, m, de_option_u32(b, m.next))

de_status_version(b, v) ==
    IF ~v.ok THEN Fail ELSE de_status_mtu(b, v, de_option_u32(b, v.next))

\* postcard::from_bytes::<Status>(buf); bytes after the message are ignored.
de_status(b) == de_status_version(b, de_bytes(b, 1))

\* Command::Wait: correlation_id, poll.
de_wait_poll(c, p) ==
    IF ~p.ok THEN Fail ELSE Got(new_wait(p.val, c.val), p.next)

de_wait(b, c) ==
    IF ~c.ok THEN Fail ELSE de_wait_poll(c, de_option_u32(b, c.next))

\* Command::Sync: version, correlation_id, poll.
de_sync_poll(v, c, p) ==
    IF ~p.ok THEN Fail ELSE Got(new_sync(v.val, p.val, c.val), p.next)

\* Command::Write: version, correlation_id, offset, data.
de_write_data(v, c, o, d) ==
    IF ~d.ok THEN Fail ELSE Got(new_write(v.val, o.val, d.val, c.val), d.next)

de_write_offset(b, v, c, o) ==
    IF ~o.ok THEN Fail ELSE de_write_data(v, c, o, de_bytes(b, o.next))

\* Command::Swap: version, correlation_id, checksum.
de_swap_checksum(v, c, k) ==
    IF ~k.ok THEN Fail ELSE Got(new_swap(v.val, k.val, c.val), k.next)

\* Sync, Write and Swap all start with version and correlation_id.
de_command_correlation_id(b, t, v, c) ==
    IF ~c.ok THEN Fail
    ELSE IF t = 1 THEN de_sync_poll(v, c, de_option_u32(b, c.next))
    ELSE IF t = 2 THEN de_write_offset(b, v, c, de_u32(b, c.next))
    ELSE de_swap_checksum(v, c, de_bytes(b, c.next))

de_command_version(b, t, v) ==
    IF ~v.ok THEN Fail
    ELSE de_command_correlation_id(b, t, v, de_option_u32(b, v.next))

de_command_variant(b, t) ==
    IF ~t.ok THEN Fail
    ELSE IF t.val = 0 THEN de_wait(b, de_option_u32(b, t.next))
    ELSE IF t.val \in {1, 2, 3} THEN de_command_version(b, t.val, de_bytes(b, t.next))
    ELSE Fail

\* postcard::from_bytes::<Command>(buf)
de_command(b) == de_command_variant(b, de_u32(b, 1))

(***************************************************************************)
(* traits.rs                                                               *)
(***************************************************************************)
\* FirmwareVersion::from_slice for heapless::Vec<u8, N>: Err when the slice
\* is longer than the capacity.
from_slice(data, cap) == IF Len(data) <= cap THEN Some(data) ELSE None

FirmwareStatus(current_version, next_offset, next_version) ==
    [current_version |-> current_version, next_offset |-> next_offset,
     next_version |-> next_version]

(***************************************************************************)
(* service/memory.rs: InMemory::request as a function of the service's     *)
(* target and the Status.                                                  *)
(***************************************************************************)
\* Variant: the resume branch sends the whole remainder, ignoring the MTU.
InMemory_request_ignores_mtu(expected_version, expected_firmware, s) ==
    IF expected_version = s.version
    THEN new_sync(expected_version, None, s.correlation_id)
    ELSE IF IsSome(s.update) /\ s.update[1].version = expected_version
    THEN IF s.update[1].offset >= Len(expected_firmware)
         THEN new_swap(expected_version, <<>>, s.correlation_id)
         ELSE new_write(expected_version, s.update[1].offset,
                        SubSeq(expected_firmware, s.update[1].offset + 1,
                               Len(expected_firmware)),
                        s.correlation_id)
    ELSE new_write(expected_version, 0,
                   SubSeq(expected_firmware, 1,
                          Min(unwrap_or(s.mtu, 128), Len(expected_firmware))),
                   s.correlation_id)

\* Variant: Sync is answered only to a device with no update in progress.
InMemory_request_update_first(expected_version, expected_firmware, s) ==
    IF expected_version = s.version /\ ~IsSome(s.update)
    THEN new_sync(expected_version, None, s.correlation_id)
    ELSE IF IsSome(s.update) /\ s.update[1].version = expected_version
    THEN IF s.update[1].offset >= Len(expected_firmware)
         THEN new_swap(expected_version, <<>>, s.correlation_id)
         ELSE new_write(expected_version, s.update[1].offset,
                        SubSeq(expected_firmware, s.update[1].offset + 1,
                               s.update[1].offset
                                 + Min(unwrap_or(s.mtu, 16),
                                       Len(expected_firmware) - s.update[1].offset)),
                        s.correlation_id)
    ELSE new_write(expected_version, 0,
                   SubSeq(expected_firmware, 1,
                          Min(unwrap_or(s.mtu, 128), Len(expected_firmware))),
                   s.correlation_id)

\* Variant: the answer carries correlation id 0 whatever the Status carries.
InMemory_request_no_echo(expected_version, expected_firmware, s) ==
    IF expected_version = s.version
    THEN new_sync(expected_version, None, Some(0))
    ELSE IF IsSome(s.update) /\ s.update[1].version = expected_version
    THEN IF s.update[1].offset >= Len(expected_firmware)
         THEN new_swap(expected_version, <<>>, Some(0))
         ELSE new_write(expected_version, s.update[1].offset,
                        SubSeq(expected_firmware, s.update[1].offset + 1,
                               s.update[1].offset
                                 + Min(unwrap_or(s.mtu, 16),
                                       Len(expected_firmware) - s.update[1].offset)),
                        Some(0))
    ELSE new_write(expected_version, 0,
                   SubSeq(expected_firmware, 1,
                          Min(unwrap_or(s.mtu, 128), Len(expected_firmware))),
                   Some(0))

\* Variant: the resume branch falls back to an MTU of 128 like the others.
InMemory_request_default_128(expected_version, expected_firmware, s) ==
    IF expected_version = s.version
    THEN new_sync(expected_version, None, s.correlation_id)
    ELSE IF IsSome(s.update) /\ s.update[1].version = expected_version
    THEN IF s.update[1].offset >= Len(expected_firmware)
         THEN new_swap(expected_version, <<>>, s.correlation_id)
         ELSE new_write(expected_version, s.update[1].offset,
                        SubSeq(expected_firmware, s.update[1].offset + 1,
                               s.update[1].offset
                                 + Min(unwrap_or(s.mtu, 128),
                                       Len(expected_firmware) - s.update[1].offset)),
                        s.correlation_id)
    ELSE new_write(expected_version, 0,
                   SubSeq(expected_firmware, 1,
                          Min(unwrap_or(s.mtu, 128), Len(expected_firmware))),
                   s.correlation_id)

\* Variant: the update counts as finished only past the end of the firmware.
InMemory_request_swap_past_end(expected_version, expected_firmware, s) ==
    IF expected_version = s.version
    THEN new_sync(expected_version, None, s.correlation_id)
    ELSE IF IsSome(s.update) /\ s.update[1].version = expected_version
    THEN IF s.update[1].offset > Len(expected_firmware)
         THEN new_swap(expected_version, <<>>, s.correlation_id)
         ELSE new_write(expected_version, s.update[1].offset,
                        SubSeq(expected_firmware, s.update[1].offset + 1,
                               s.update[1].offset
                                 + Min(unwrap_or(s.mtu, 16),
                                       Len(expected_firmware) - s.update[1].offset)),
                        s.correlation_id)
    ELSE new_write(expected_version, 0,
                   SubSeq(expected_firmware, 1,
                          Min(unwrap_or(s.mtu, 128), Len(expected_firmware))),
                   s.correlation_id)

\* Variant: the end of the firmware is not tested before the block is cut.
InMemory_request_no_end_test(expected_version, expected_firmware, s) ==
    IF expected_version = s.version
    THEN new_sync(expected_version, None, s.correlation_id)
    ELSE IF IsSome(s.update) /\ s.update[1].version = expected_version
    THEN LET update == s.update[1]
             mtu == unwrap_or(s.mtu, 16)
             to_copy == Min(mtu, Len(expected_firmware) - update.offset)
         IN new_write(expected_version, update.offset,
                      [i \in 1..to_copy |-> expected_firmware[update.offset + i]],
                      s.correlation_id)
    ELSE LET mtu == unwrap_or(s.mtu, 128)
             to_copy == Min(mtu, Len(expected_firmware))
         IN new_write(expected_version, 0,
                      SubSeq(expected_firmware, 1, to_copy), s.correlation_id)

InMemory_request(expected_version, expected_firmware, s) ==
    IF expected_version = s.version
    THEN new_sync(expected_version, None, s.correlation_id)
    ELSE IF IsSome(s.update)
    THEN LET update == s.update[1] IN
         IF update.version = expected_version
         THEN IF update.offset >= Len(expected_firmware)
              THEN new_swap(expected_version, <<>>, s.correlation_id)
              ELSE LET mtu == unwrap_or(s.mtu, 16)
                       to_copy == Min(mtu, Len(expected_firmware) - update.offset)
                   IN new_write(expected_version, update.offset,
                                SubSeq(expected_firmware, update.offset + 1,
                                       update.offset + to_copy),
                                s.correlation_id)
         ELSE LET mtu == unwrap_or(s.mtu, 128)
                  to_copy == Min(mtu, Len(expected_firmware))
              IN new_write(expected_version, 0,
                           SubSeq(expected_firmware, 1, to_copy), s.correlation_id)
    ELSE LET mtu == unwrap_or(s.mtu, 128)
             to_copy == Min(mtu, Len(expected_firmware))
         IN new_write(expected_version, 0,
                      SubSeq(expected_firmware, 1, to_copy), s.correlation_id)

(***************************************************************************)
(* updater.rs: the pure parts of FirmwareUpdater::check and run.           *)
(***************************************************************************)
\* lines 93-100: the loop state is read once from device.status().
InitialState(initial) ==
    [current_version |-> initial.current_version,
     next_offset |-> initial.next_offset,
     next_version |-> initial.next_version]

\* Variant: the Status never carries the update in progress.
BuildStatus_no_update(st, mtu) == Status_first(st.current_version, Some(mtu), None)

\* lines 107-117: the Status of one iteration; mtu is the device's F::MTU.
BuildStatus(st, mtu) ==
    IF IsSome(st.next_version)
    THEN Status_update(st.current_version, Some(mtu), st.next_offset,
                       st.next_version[1], None)
    ELSE Status_first(st.current_version, Some(mtu), None)

\* Variant: the backoff is taken in milliseconds, not divided.
DefaultPoll_ms(backoff_ms) == Some(backoff_ms)

\* line 122: let mut poll_opt = Some(self.backoff_ms / 1000)
DefaultPoll(backoff_ms) == Some(backoff_ms \div 1000)

\* Variant: the poll hint of the command is dropped.
PollHint_ignored(poll, popt) == popt

\* lines 159-163 and 171-175: a poll hint replaces poll_opt only when > 0.
PollHint(poll, popt) ==
    IF IsSome(poll) /\ poll[1] > 0 THEN Some(poll[1]) ELSE popt

\* Variant: a Write never calls device.start.
Dispatch_no_start(c) ==
    CASE c.tag = "Write" -> "write"
      [] c.tag = "Sync"  -> "synced"
      [] c.tag = "Wait"  -> "delay"
      [] c.tag = "Swap"  -> "update"

\* lines 130-188: the device operation a received Command leads to first.
Dispatch(c) ==
    CASE c.tag = "Write" -> IF c.offset = 0 THEN "start" ELSE "write"
      [] c.tag = "Sync"  -> "synced"
      [] c.tag = "Wait"  -> "delay"
      [] c.tag = "Swap"  -> "update"

\* u32 arithmetic: a result that does not fit panics in a build with
\* overflow checks and wraps in a build without; Overflow stands for the
\* panic.
Overflow == -1
U32Outcomes(n) ==
    IF n \div Limb < Limb THEN {n}
    ELSE {((n \div Limb) % Limb) * Limb + (n % Limb), Overflow}

\* line 147: next_state.next_offset += data.len() as u32
AdvanceOffset(next_offset, len) == U32Outcomes(next_offset + len)

\* line 201: delay.delay_ms(poll * 1000)
Mul1000Lo(poll) == ((poll % Limb) * 1000) % Limb
Mul1000Hi(poll) == (poll \div Limb) * 1000 + ((poll % Limb) * 1000) \div Limb
DelayArg(poll) ==
    IF Mul1000Hi(poll) < Limb THEN {Mul1000Hi(poll) * Limb + Mul1000Lo(poll)}
    ELSE {(Mul1000Hi(poll) % Limb) * Limb + Mul1000Lo(poll), Overflow}

\* lines 164 and 187: what check returns after Sync and after Swap.
CheckSynced(popt) == [synced |-> TRUE, wait |-> popt]
CheckSwapped == [synced |-> FALSE, wait |-> None]

\* Variant: the two branches of run are exchanged.
RunResult_swapped(r) ==
    IF r.synced THEN [tag |-> "Updated"]
    ELSE [tag |-> "Synced", wait |-> r.wait]

\* lines 216-221: run maps check's pair to a DeviceStatus.
RunResult(r) ==
    IF r.synced THEN [tag |-> "Synced", wait |-> r.wait]
    ELSE [tag |-> "Updated"]

Running == [tag |-> "Running"]
Panicked == [tag |-> "Panic"]
ErrDevice(op) == [tag |-> "Err", error |-> "Device", op |-> op]
ErrDecodeVersion == [tag |-> "Err", error |-> "DecodeVersion"]

(***************************************************************************)
(* Device operations as log entries.                                       *)
(***************************************************************************)
CallStatus == [op |-> "status"]
CallStart(version) == [op |-> "start", version |-> version]
CallWrite(offset, data) == [op |-> "write", offset |-> offset, data |-> data]
CallUpdate(version, checksum) ==
    [op |-> "update", version |-> version, checksum |-> checksum]
CallSynced == [op |-> "synced"]

\* The device call the updater is about to make at position pc[p].
PendingCall(p) ==
    CASE pc[p] = "init"   -> CallStatus
      [] pc[p] = "start"  -> CallStart(cmd[p].version)
      [] pc[p] = "write"  -> CallWrite(cmd[p].offset, cmd[p].data)
      [] pc[p] = "synced" -> CallSynced
      [] pc[p] = "update" -> CallUpdate(cmd[p].version, cmd[p].checksum)

DevicePcs == {"init", "start", "write", "synced", "update"}

Upd(f, p, v) == [f EXCEPT ![p] = v]
Log(p, call) == devlog' = Upd(devlog, p, Append(devlog[p], call))

\* A call that returned Err(e) is logged with an extra field err.
Failed(call) ==
    [f \in DOMAIN call \cup {"err"} |-> IF f = "err" THEN TRUE ELSE call[f]]
IsFailed(call) == "err" \in DOMAIN call

(***************************************************************************)
(* Continuations of check() after each awaited operation.                  *)
(***************************************************************************)
\* lines 93-100, after device.status() returned Ok(initial)
after_status(p, initial) ==
    /\ state' = Upd(state, p, InitialState(initial))
    /\ pc' = Upd(pc, p, "loop")
    /\ UNCHANGED <<next_state, poll_opt, status, cmd, result, cfg, sent, cmds, sleeps>>

\* line 143 returned Ok: go on to device.write
after_start(p) ==
    /\ pc' = Upd(pc, p, "write")
    /\ UNCHANGED <<state, next_state, poll_opt, status, cmd, result, cfg, sent, cmds, sleeps>>

\* Variant: the advanced offset is kept when the version does not fit.
after_write_decode_committed(p, cap) ==
    /\ \E off \in AdvanceOffset(next_state[p].next_offset, Len(cmd[p].data)) :
         IF off = Overflow
         THEN /\ result' = Upd(result, p, Panicked)
              /\ pc' = Upd(pc, p, "done")
              /\ UNCHANGED <<state, next_state>>
         ELSE LET v == from_slice(cmd[p].version, cap) IN
              IF IsSome(v)
              THEN /\ next_state' = Upd(next_state, p,
                          [next_state[p] EXCEPT !.next_offset = off,
                                                !.next_version = Some(v[1])])
                   /\ pc' = Upd(pc, p, "delay")
                   /\ UNCHANGED <<state, result>>
              ELSE /\ next_state' = Upd(next_state, p,
                          [next_state[p] EXCEPT !.next_offset = off])
                   /\ state' = Upd(state, p,
                          [state[p] EXCEPT !.next_offset = off])
                   /\ result' = Upd(result, p, ErrDecodeVersion)
                   /\ pc' = Upd(pc, p, "done")
    /\ UNCHANGED <<poll_opt, status, cmd, cfg, sent, cmds, sleeps>>

\* lines 147-150, after device.write returned Ok
after_write(p, cap) ==
    /\ \E off \in AdvanceOffset(next_state[p].next_offset, Len(cmd[p].data)) :
         IF off = Overflow
         THEN /\ result' = Upd(result, p, Panicked)
              /\ pc' = Upd(pc, p, "done")
              /\ UNCHANGED next_state
         ELSE LET v == from_slice(cmd[p].version, cap) IN
              IF IsSome(v)
              THEN /\ next_state' = Upd(next_state, p,
                          [next_state[p] EXCEPT !.next_offset = off,
                                                !.next_version = Some(v[1])])
                   /\ pc' = Upd(pc, p, "delay")
                   /\ UNCHANGED result
              ELSE /\ next_state' = Upd(next_state, p,
                          [next_state[p] EXCEPT !.next_offset = off])
                   /\ result' = Upd(result, p, ErrDecodeVersion)
                   /\ pc' = Upd(pc, p, "done")
    /\ UNCHANGED <<state, poll_opt, status, cmd, cfg, sent, cmds, sleeps>>

\* lines 159-164, after device.synced() returned Ok; run lines 216-221
after_synced(p) ==
    LET popt == PollHint(cmd[p].poll, poll_opt[p]) IN
    /\ poll_opt' = Upd(poll_opt, p, popt)
    /\ result' = Upd(result, p, RunResult(CheckSynced(popt)))
    /\ pc' = Upd(pc, p, "done")
    /\ UNCHANGED <<state, next_state, status, cmd, cfg, sent, cmds, sleeps>>

\* Variant: the loop goes on after device.update instead of returning.
after_update_continues(p) ==
    /\ pc' = Upd(pc, p, "delay")
    /\ UNCHANGED <<state, next_state, poll_opt, status, cmd, result, cfg, sent, cmds, sleeps>>

\* line 187, after device.update returned Ok; run lines 216-221
after_update(p) ==
    /\ result' = Upd(result, p, RunResult(CheckSwapped))
    /\ pc' = Upd(pc, p, "done")
    /\ UNCHANGED <<state, next_state, poll_opt, status, cmd, cfg, sent, cmds, sleeps>>

\* Variant: the error of the device is swallowed and the loop goes on.
after_device_err_ignored(p) ==
    /\ pc' = Upd(pc, p, "delay")
    /\ UNCHANGED <<state, next_state, poll_opt, status, cmd, result, cfg, sent, cmds, sleeps>>

\* map_err(Error::Device)? after any device operation returned Err
after_device_err(p) ==
    /\ result' = Upd(result, p, ErrDevice(PendingCall(p).op))
    /\ pc' = Upd(pc, p, "done")
    /\ UNCHANGED <<state, next_state, poll_opt, status, cmd, cfg, sent, cmds, sleeps>>

\* lines 130-188: the service future won the race with Ok(c)
Receive(p, c) ==
    /\ cmds' = Upd(cmds, p, Append(cmds[p], c))
    /\ cmd' = Upd(cmd, p, c)
    /\ pc' = Upd(pc, p, Dispatch(c))
    /\ poll_opt' = Upd(poll_opt, p,
           IF c.tag = "Wait" THEN PollHint(c.poll, poll_opt[p]) ELSE poll_opt[p])
    /\ UNCHANGED <<state, next_state, status, result, cfg, sent, sleeps>>

(***************************************************************************)
(* The loop of check(), lines 106-203.                                     *)
(***************************************************************************)
\* The two outcomes of the race that carry no Command.
TimedOut == [tag |-> "Timeout"]
ServiceErr == [tag |-> "Err"]

\* lines 107-125: build the Status, clone the state, preset poll_opt and
\* start the race between delay_ms(timeout_ms) and service.request(&status).
SendStatus(p) ==
    /\ pc[p] = "loop"
    /\ LET s == BuildStatus(state[p], dev[p].mtu) IN
       /\ status' = Upd(status, p, s)
       /\ sent' = Upd(sent, p, Append(sent[p], s))
    /\ next_state' = Upd(next_state, p, state[p])
    /\ poll_opt' = Upd(poll_opt, p, DefaultPoll(cfg[p].backoff_ms))
    /\ pc' = Upd(pc, p, "race")
    /\ UNCHANGED <<state, cmd, result, cfg, svc, dev, link, devlog, cmds, sleeps>>

\* Variant: a timeout counts one byte of progress.
Timeout_advances(p) ==
    /\ pc[p] = "race"
    /\ cmds' = Upd(cmds, p, Append(cmds[p], TimedOut))
    /\ next_state' = Upd(next_state, p,
           [next_state[p] EXCEPT !.next_offset = @ + 1, !.next_version = Some(V2)])
    /\ pc' = Upd(pc, p, "delay")
    /\ UNCHANGED <<state, poll_opt, status, cmd, result, cfg, svc,
                   dev, link, devlog, sent, sleeps>>

\* line 196: Either::Left, the timer won the race; the request is dropped.
Timeout(p) ==
    /\ pc[p] = "race"
    /\ cmds' = Upd(cmds, p, Append(cmds[p], TimedOut))
    /\ pc' = Upd(pc, p, "delay")
    /\ UNCHANGED <<state, next_state, poll_opt, status, cmd, result, cfg, svc,
                   dev, link, devlog, sent, sleeps>>

\* Variant: an Err of the service ends the run with Error::Service.
ServiceError_fatal(p) ==
    /\ pc[p] = "race"
    /\ cmds' = Upd(cmds, p, Append(cmds[p], ServiceErr))
    /\ result' = Upd(result, p, [tag |-> "Err", error |-> "Service"])
    /\ pc' = Upd(pc, p, "done")
    /\ UNCHANGED <<state, next_state, poll_opt, status, cmd, cfg, svc,
                   dev, link, devlog, sent, sleeps>>

\* lines 189-194: the service answered Err(e); it is only logged.
ServiceError(p) ==
    /\ pc[p] = "race"
    /\ cmds' = Upd(cmds, p, Append(cmds[p], ServiceErr))
    /\ pc' = Upd(pc, p, "delay")
    /\ UNCHANGED <<state, next_state, poll_opt, status, cmd, result, cfg, svc,
                   dev, link, devlog, sent, sleeps>>

\* lines 199-202: commit next_state, then sleep poll * 1000 ms.
Backoff(p) ==
    /\ pc[p] = "delay"
    /\ state' = Upd(state, p, next_state[p])
    /\ IF IsSome(poll_opt[p])
       THEN \E ms \in DelayArg(poll_opt[p][1]) :
              IF ms = Overflow
              THEN /\ result' = Upd(result, p, Panicked)
                   /\ pc' = Upd(pc, p, "done")
                   /\ UNCHANGED sleeps
              ELSE /\ sleeps' = Upd(sleeps, p, Append(sleeps[p], ms))
                   /\ pc' = Upd(pc, p, "loop")
                   /\ UNCHANGED result
       ELSE /\ pc' = Upd(pc, p, "loop")
            /\ UNCHANGED <<sleeps, result>>
    /\ UNCHANGED <<next_state, poll_opt, status, cmd, cfg, svc, dev, link,
                   devlog, sent, cmds>>

(***************************************************************************)
(* Services.                                                               *)
(***************************************************************************)
\* Commands an arbitrary UpdateService (traits.rs, UpdateService::request)
\* may answer with.
AnyPolls == {None, Some(0), Some(10)}
AnyCommands ==
    {new_wait(poll, None) : poll \in AnyPolls}
    \cup {new_sync(v, poll, None) : v \in {V1, V2}, poll \in AnyPolls}
    \cup {new_write(v, offset, data, None) :
            v \in {V2, VLong}, offset \in {0, 1}, data \in {<<>>, <<7>>}}
    \cup {new_swap(V2, <<>>, None)}

\* An arbitrary service answers Ok(c) before the timer fires.
AnyService_request(p) ==
    /\ pc[p] = "race"
    /\ svc[p].kind = "Any"
    /\ \E c \in AnyCommands : Receive(p, c)
    /\ UNCHANGED <<svc, dev, link, devlog>>

\* service/memory.rs lines 27-66: the future is ready on its first poll.
InMemory_service_request(p) ==
    /\ pc[p] = "race"
    /\ svc[p].kind = "InMemory"
    /\ Receive(p, InMemory_request(svc[p].expected_version,
                                   svc[p].expected_firmware, status[p]))
    /\ UNCHANGED <<svc, dev, link, devlog>>

(***************************************************************************)
(* A generic FirmwareDevice (traits.rs lines 81-125): it reports the       *)
(* status it was constructed with and accepts every operation.             *)
(***************************************************************************)
Generic_status(p) ==
    /\ pc[p] = "init"
    /\ dev[p].kind = "Generic"
    /\ Log(p, CallStatus)
    /\ after_status(p, dev[p].status)
    /\ UNCHANGED <<svc, dev, link>>

Generic_start(p) ==
    /\ pc[p] = "start"
    /\ dev[p].kind = "Generic"
    /\ Log(p, CallStart(cmd[p].version))
    /\ after_start(p)
    /\ UNCHANGED <<svc, dev, link>>

Generic_write(p) ==
    /\ pc[p] = "write"
    /\ dev[p].kind = "Generic"
    /\ Log(p, CallWrite(cmd[p].offset, cmd[p].data))
    /\ after_write(p, dev[p].cap)
    /\ UNCHANGED <<svc, dev, link>>

Generic_synced(p) ==
    /\ pc[p] = "synced"
    /\ dev[p].kind = "Generic"
    /\ Log(p, CallSynced)
    /\ after_synced(p)
    /\ UNCHANGED <<svc, dev, link>>

Generic_update(p) ==
    /\ pc[p] = "update"
    /\ dev[p].kind = "Generic"
    /\ Log(p, CallUpdate(cmd[p].version, cmd[p].checksum))
    /\ after_update(p)
    /\ UNCHANGED <<svc, dev, link>>

\* Any operation of a fallible device may return Err(e).
Generic_fail(p) ==
    /\ pc[p] \in DevicePcs
    /\ dev[p].kind = "Generic"
    /\ dev[p].fallible
    /\ Log(p, Failed(PendingCall(p)))
    /\ after_device_err(p)
    /\ UNCHANGED <<svc, dev, link>>

(***************************************************************************)
(* Initial states.                                                         *)
(***************************************************************************)
U == "U"

NoStatus == Status_first(<<>>, None, None)
NoCommand == new_wait(None, None)
NoState == InitialState(FirmwareStatus(<<>>, 0, None))

InitUpdater(ps) ==
    /\ pc = [p \in ps |-> "init"]
    /\ state = [p \in ps |-> NoState]
    /\ next_state = [p \in ps |-> NoState]
    /\ poll_opt = [p \in ps |-> None]
    /\ status = [p \in ps |-> NoStatus]
    /\ cmd = [p \in ps |-> NoCommand]
    /\ result = [p \in ps |-> Running]
    /\ devlog = [p \in ps |-> <<>>]
    /\ sent = [p \in ps |-> <<>>]
    /\ cmds = [p \in ps |-> <<>>]
    /\ sleeps = [p \in ps |-> <<>>]

\* UpdaterConfig values: backoff_ms of the tests (0, 10000), of Default
\* (1000), and values that are not multiples of 1000.
BackoffValues == {0, 999, 1000, 1500, 10000}

GenericDevice(mtu, st, fallible) ==
    [kind |-> "Generic", mtu |-> mtu, cap |-> VersionCap, status |-> st,
     fallible |-> fallible]

\* Statuses a device may report: no update in progress, or an update in
\* progress for some version at some offset.
InProgress(versions, offsets) ==
    {FirmwareStatus(V1, o, Some(v)) : v \in versions, o \in offsets}
Idle(current) == FirmwareStatus(current, 0, None)

\* One updater with an arbitrary service and a fallible generic device.
Init ==
    /\ InitUpdater({U})
    /\ cfg \in {[p \in {U} |-> [timeout_ms |-> 1000, backoff_ms |-> b]] :
                  b \in BackoffValues}
    /\ svc = [p \in {U} |-> [kind |-> "Any"]]
    /\ dev \in {[p \in {U} |-> GenericDevice(MaxMtu, st, TRUE)] :
                  st \in {Idle(V1)} \cup InProgress({V2, V3}, {1})}
    /\ link = <<>>

Step(p) ==
        \/ Generic_status(p)
        \/ (Len(sent[p]) < MaxIter /\ SendStatus(p))
        \/ Timeout(p)
        \/ ServiceError(p)
        \/ AnyService_request(p)
        \/ Generic_start(p)
        \/ Generic_write(p)
        \/ Generic_synced(p)
        \/ Generic_update(p)
        \/ Generic_fail(p)
        \/ Backoff(p)

Next == \E p \in DOMAIN pc : Step(p)

Spec == Init /\ [][Next]_vars

(***************************************************************************)
(* The same updater with a Delay whose delay_ms may return Err, as the     *)
(* DelayUs of tests/serial.rs (lines 106-123) allows: Error is an          *)
(* associated type and the future resolves to a Result.                    *)
(***************************************************************************)
\* A failed sleep of ms milliseconds in the history of sleeps, which holds
\* the u32 arguments of the sleeps that returned Ok.
SleepFailed(ms) == (0 - 2) - ms
IsSleepFailed(e) == e < Overflow

\* lines 199-202 when delay_ms returns Err(e): the statement ends with a
\* semicolon, the Result is dropped and the loop goes on.
Backoff_fails(p) ==
    /\ pc[p] = "delay"
    /\ IsSome(poll_opt[p])
    /\ state' = Upd(state, p, next_state[p])
    /\ \E ms \in DelayArg(poll_opt[p][1]) \ {Overflow} :
         sleeps' = Upd(sleeps, p, Append(sleeps[p], SleepFailed(ms)))
    /\ pc' = Upd(pc, p, "loop")
    /\ UNCHANGED <<next_state, poll_opt, status, cmd, result, cfg, svc, dev, link,
                   devlog, sent, cmds>>

InitDelay ==
    /\ InitUpdater({U})
    /\ cfg \in {[p \in {U} |-> [timeout_ms |-> 1000, backoff_ms |-> b]] :
                  b \in {0, 1000}}
    /\ svc = [p \in {U} |-> [kind |-> "Any"]]
    /\ dev = [p \in {U} |-> GenericDevice(MaxMtu, Idle(V1), TRUE)]
    /\ link = <<>>

NextDelay ==
    \E p \in DOMAIN pc :
        \/ Step(p)
        \/ Backoff_fails(p)

SpecDelay == InitDelay /\ [][NextDelay]_vars

(***************************************************************************)
(* The same updater with a service that answers Wait, with any u32 poll    *)
(* hint, fails or lets the timer win, until it answers Sync.               *)
(***************************************************************************)
\* Hints of ten seconds, of the most seconds whose milliseconds the model
\* can hold, and of the fewest whose milliseconds exceed a u32.
WaitPolls == {None, Some(0), Some(10), Some(2147483), Some(4294968)}
WaitCommands ==
    {new_wait(poll, None) : poll \in WaitPolls} \cup {new_sync(V1, None, None)}

WaitService_request(p) ==
    /\ pc[p] = "race"
    /\ svc[p].kind = "Waiting"
    /\ \E c \in WaitCommands : Receive(p, c)
    /\ UNCHANGED <<svc, dev, link, devlog>>

InitWait ==
    /\ InitUpdater({U})
    /\ cfg \in {[p \in {U} |-> [timeout_ms |-> 1000, backoff_ms |-> b]] :
                  b \in BackoffValues}
    /\ svc = [p \in {U} |-> [kind |-> "Waiting"]]
    /\ dev \in {[p \in {U} |-> GenericDevice(MaxMtu, st, FALSE)] :
                  st \in {Idle(V1)} \cup InProgress({V2}, {1})}
    /\ link = <<>>

NextWait ==
    \E p \in DOMAIN pc :
        \/ Generic_status(p)
        \/ (Len(sent[p]) < MaxIter /\ SendStatus(p))
        \/ WaitService_request(p)
        \/ Timeout(p)
        \/ ServiceError(p)
        \/ Generic_synced(p)
        \/ Backoff(p)

SpecWait == InitWait /\ [][NextWait]_vars

(***************************************************************************)
(* One updater with the in-memory service and a generic device; the        *)
(* service's future is ready at once, so the timer never wins the race.    *)
(***************************************************************************)
Firmware(n) == [i \in 1..n |-> i % 256]

InMemory(expected_version, expected_firmware) ==
    [kind |-> "InMemory", expected_version |-> expected_version,
     expected_firmware |-> expected_firmware]

\* Small targets and devices, and the two unit tests of updater.rs (lines
\* 241-271): firmware [1; 1024] and a device of MTU 256 at version "1".
MemConfigs ==
    {[svc |-> InMemory(v, Firmware(n)), dev |-> GenericDevice(m, st, FALSE)] :
        v \in {V1, V2}, n \in 0..MaxFwLen, m \in 1..MaxMtu,
        st \in {Idle(V1)} \cup InProgress({V1, V2, V3}, 0..(MaxFwLen + 1))}
    \cup
    {[svc |-> InMemory(v, [i \in 1..1024 |-> 1]),
      dev |-> GenericDevice(256, Idle(V1), FALSE)] : v \in {V1, V2}}

InitMem ==
    /\ InitUpdater({U})
    /\ cfg \in {[p \in {U} |-> [timeout_ms |-> 1000, backoff_ms |-> b]] :
                  b \in {0, 10000}}
    /\ \E c \in MemConfigs :
         /\ svc = [p \in {U} |-> c.svc]
         /\ dev = [p \in {U} |-> c.dev]
    /\ link = <<>>

NextMem ==
    \E p \in DOMAIN pc :
        \/ Generic_status(p)
        \/ SendStatus(p)
        \/ InMemory_service_request(p)
        \/ Generic_start(p)
        \/ Generic_write(p)
        \/ Generic_synced(p)
        \/ Generic_update(p)
        \/ Backoff(p)

SpecMem == InitMem /\ [][NextMem]_vars

\* The in-memory service always answers, so the loop keeps running.
FairSpecMem == SpecMem /\ WF_vars(NextMem)

(***************************************************************************)
(* The serial chain of tests/serial.rs: updater A runs the in-memory       *)
(* service against the Serial device (device/serial.rs), updater B runs    *)
(* the Serial service (service/serial.rs) against the Simulator            *)
(* (device/simulator.rs); the two Serial ends share a Link of two bounded  *)
(* channels of 1024-byte frames.                                           *)
(***************************************************************************)
FRAME_SIZE == 1024
SerialMTU == 968
SimulatorMTU == 256
LinkCap == 4

ZeroFrame == [i \in 1..FRAME_SIZE |-> 0]

A == "A"
B == "B"

\* device::Serial::new(src): lines 27-37
SerialDevice(tx, rx) ==
    [kind |-> "Serial", mtu |-> SerialMTU, cap |-> VersionCap,
     status |-> FirmwareStatus(<<>>, 0, None), buf |-> ZeroFrame,
     tx |-> tx, rx |-> rx, out |-> <<>>]

\* service::Serial::new(dest): lines 26-31
SerialService(tx, rx) ==
    [kind |-> "Serial", buf |-> ZeroFrame, tx |-> tx, rx |-> rx, out |-> <<>>,
     timer |-> FALSE]

\* device::Simulator::new(version): lines 12-16
Simulator(version) ==
    [kind |-> "Simulator", mtu |-> SimulatorMTU, cap |-> VersionCap,
     version |-> version]

\* The end of a channel whose far end has dropped its Link, queued after
\* its last frame: recv() returns None there (tests/serial.rs 69-75), and
\* the far end receives no more, so that send() fails (line 89).
Closed == <<>>
IsClosed(ch) == Len(link[ch]) > 0 /\ Last(link[ch]) = Closed

\* Link::write (tests/serial.rs 86-90) sends the buffer in chunks of 1024
\* bytes, each padded with zeroes to a frame.
RECURSIVE chunks(_)
chunks(buf) ==
    IF Len(buf) = 0 THEN <<>>
    ELSE LET n == Min(Len(buf), FRAME_SIZE) IN
         <<SubSeq(buf, 1, n) \o SubSeq(ZeroFrame, n + 1, FRAME_SIZE)>>
             \o chunks(SubSeq(buf, n + 1, Len(buf)))

\* tests/serial.rs 24-25: mpsc::channel(4); tx.send waits while no slot is
\* free.
Link_room(ch) == LinkCap - Len(link[ch])

\* The write future holds the chunks it has still to send (out).  Each time
\* it runs it sends chunks while the channel has room, and waits in
\* tx.send(b).await with the rest.
Link_write_count(ch, out) == Min(Len(out), Link_room(ch))
Link_write(ch, out) ==
    link' = [link EXCEPT ![ch] = @ \o SubSeq(out, 1, Link_write_count(ch, out))]
Link_write_rest(ch, out) == SubSeq(out, Link_write_count(ch, out) + 1, Len(out))

\* Link::read waits for a frame and copies it over the front of the buffer.
Link_can_read(ch) == Len(link[ch]) > 0
Link_read(ch, buf) ==
    LET m == Head(link[ch])
        to_copy == Min(Len(m), Len(buf)) IN
    SubSeq(m, 1, to_copy) \o SubSeq(buf, to_copy + 1, Len(buf))
Link_pop(ch) ==
    link' = [link EXCEPT ![ch] = IF Head(@) = Closed THEN @ ELSE Tail(@)]

\* A panic of the task inside a device operation (an unwrap of None or Err).
device_panic(p) ==
    /\ result' = Upd(result, p, Panicked)
    /\ pc' = Upd(pc, p, "done")
    /\ UNCHANGED <<state, next_state, poll_opt, status, cmd, cfg, sent, cmds, sleeps>>

(***************************************************************************)
(* device/serial.rs: the device's operations as functions of the adapter   *)
(* d and the arguments; ok tells Ok from Err, d is the adapter afterwards. *)
(***************************************************************************)
\* lines 75-79: the update of the Status, when there is one
Serial_status_next_version(d, nv) ==
    IF IsSome(nv)
    THEN [ok |-> TRUE, d |-> [d EXCEPT !.status.next_version = nv]]
    ELSE [ok |-> FALSE, d |-> d]

Serial_status_update(d, s) ==
    IF ~IsSome(s.update) THEN [ok |-> TRUE, d |-> d]
    ELSE Serial_status_next_version(
             [d EXCEPT !.status.next_offset = s.update[1].offset],
             from_slice(s.update[1].version, VersionCap))

\* line 72
Serial_status_current_version(d, s, cur) ==
    IF ~IsSome(cur) THEN [ok |-> FALSE, d |-> d]
    ELSE Serial_status_update([d EXCEPT !.status.current_version = cur[1]], s)

\* line 71
Serial_status_decoded(d, s) ==
    IF ~s.ok THEN [ok |-> FALSE, d |-> d]
    ELSE Serial_status_current_version(d, s.val,
                                       from_slice(s.val.version, VersionCap))

\* lines 71-79, on the frame just read into d.buf
Serial_status(d) == Serial_status_decoded(d, de_status(d.buf))

\* Variant: start resets the offset and forgets to store the version.
Serial_start_offset_only(d, version) ==
    [ok |-> IsSome(from_slice(version, VersionCap)),
     d |-> [d EXCEPT !.status.next_offset = 0]]

\* lines 90-94
Serial_start(d, version) ==
    LET d1 == [d EXCEPT !.status.next_offset = 0]
        nv == from_slice(version, VersionCap) IN
    IF IsSome(nv)
    THEN [ok |-> TRUE, d |-> [d1 EXCEPT !.status.next_version = nv]]
    ELSE [ok |-> FALSE, d |-> d1]

\* A write that relays the data and the version without the offset.
Serial_write_command_at_zero(d, offset, data) ==
    new_write(d.status.next_version[1], 0, data, None)

\* lines 105, 119, 132: the Command each operation puts on the wire.
Serial_write_command(d, offset, data) ==
    new_write(d.status.next_version[1], offset, data, None)
Serial_update_command(version, checksum) == new_swap(version, checksum, None)
Serial_synced_command(d) == new_sync(d.status.current_version, None, None)

\* lines 63-81: wait for a frame, decode it, record it.
SerialDevice_status(p) ==
    /\ pc[p] = "init"
    /\ dev[p].kind = "Serial"
    /\ Link_can_read(dev[p].rx)
    /\ \E r \in {Serial_status([dev[p] EXCEPT !.buf = Link_read(dev[p].rx, @)])} :
       /\ dev' = Upd(dev, p, r.d)
       /\ IF r.ok THEN after_status(p, r.d.status) ELSE after_device_err(p)
       /\ Log(p, IF r.ok THEN CallStatus ELSE Failed(CallStatus))
    /\ Link_pop(dev[p].rx)
    /\ UNCHANGED svc

\* lines 88-96: nothing is sent.
SerialDevice_start(p) ==
    /\ pc[p] = "start"
    /\ dev[p].kind = "Serial"
    /\ \E r \in {Serial_start(dev[p], cmd[p].version)} :
       /\ dev' = Upd(dev, p, r.d)
       /\ IF r.ok THEN after_start(p) ELSE after_device_err(p)
       /\ Log(p, IF r.ok THEN CallStart(cmd[p].version)
                 ELSE Failed(CallStart(cmd[p].version)))
    /\ UNCHANGED <<svc, link>>

\* lines 106-108, 120-122, 133-135: encode the command into the buffer,
\* Err(Codec) when it does not fit the frame; then send the buffer, which
\* waits while the channel is full.  dev.out holds the chunks of a write
\* that is waiting; the call has returned when none is left.  When the far
\* end has dropped its Link the task panics inside transport.write.
SerialDevice_send(p, c, after) ==
    \E r \in {IF dev[p].out = <<>> THEN to_slice(ser_command(c), dev[p].buf)
              ELSE [ok |-> TRUE, buf |-> dev[p].buf]} :
    IF r.ok /\ IsClosed(dev[p].rx)
    THEN /\ device_panic(p)
         /\ Log(p, PendingCall(p))
         /\ dev' = Upd(dev, p, [dev[p] EXCEPT !.buf = r.buf])
         /\ UNCHANGED link
    ELSE IF r.ok
    THEN \E out \in {IF dev[p].out = <<>> THEN chunks(r.buf) ELSE dev[p].out} :
         /\ dev[p].out # <<>> => Link_room(dev[p].tx) > 0
         /\ Link_write(dev[p].tx, out)
         /\ dev' = Upd(dev, p, [dev[p] EXCEPT
                        !.buf = r.buf, !.out = Link_write_rest(dev[p].tx, out)])
         /\ IF Link_write_rest(dev[p].tx, out) = <<>>
            THEN /\ Log(p, PendingCall(p))
                 /\ after
            ELSE UNCHANGED <<pc, state, next_state, poll_opt, status, cmd, result,
                             cfg, devlog, sent, cmds, sleeps>>
    ELSE /\ after_device_err(p)
         /\ Log(p, Failed(PendingCall(p)))
         /\ dev' = Upd(dev, p, [dev[p] EXCEPT !.buf = r.buf])
         /\ UNCHANGED link

\* lines 103-110
SerialDevice_write(p) ==
    /\ pc[p] = "write"
    /\ dev[p].kind = "Serial"
    /\ IF IsSome(dev[p].status.next_version)
       THEN SerialDevice_send(p,
                Serial_write_command(dev[p], cmd[p].offset, cmd[p].data),
                after_write(p, dev[p].cap))
       ELSE /\ device_panic(p)
            /\ Log(p, CallWrite(cmd[p].offset, cmd[p].data))
            /\ UNCHANGED <<dev, link>>
    /\ UNCHANGED svc

\* lines 117-124
SerialDevice_update(p) ==
    /\ pc[p] = "update"
    /\ dev[p].kind = "Serial"
    /\ SerialDevice_send(p, Serial_update_command(cmd[p].version, cmd[p].checksum),
                         after_update(p))
    /\ UNCHANGED svc

\* lines 130-137
SerialDevice_synced(p) ==
    /\ pc[p] = "synced"
    /\ dev[p].kind = "Serial"
    /\ SerialDevice_send(p, Serial_synced_command(dev[p]), after_synced(p))
    /\ UNCHANGED svc

(***************************************************************************)
(* device/simulator.rs                                                     *)
(***************************************************************************)
\* lines 27-36
Simulator_status(p) ==
    /\ pc[p] = "init"
    /\ dev[p].kind = "Simulator"
    /\ Log(p, CallStatus)
    /\ after_status(p, FirmwareStatus(dev[p].version, 0, None))
    /\ UNCHANGED <<svc, dev, link>>

\* lines 41-46
Simulator_start(p) ==
    /\ pc[p] = "start"
    /\ dev[p].kind = "Simulator"
    /\ Log(p, CallStart(cmd[p].version))
    /\ after_start(p)
    /\ UNCHANGED <<svc, dev, link>>

\* lines 51-56
Simulator_write(p) ==
    /\ pc[p] = "write"
    /\ dev[p].kind = "Simulator"
    /\ Log(p, CallWrite(cmd[p].offset, cmd[p].data))
    /\ after_write(p, dev[p].cap)
    /\ UNCHANGED <<svc, dev, link>>

\* Variant: update succeeds and the Simulator keeps its version.
Simulator_update_keeps_version(p) ==
    /\ pc[p] = "update"
    /\ dev[p].kind = "Simulator"
    /\ Log(p, CallUpdate(cmd[p].version, cmd[p].checksum))
    /\ IF IsSome(from_slice(cmd[p].version, VersionCap))
       THEN after_update(p)
       ELSE device_panic(p)
    /\ UNCHANGED <<svc, dev, link>>

\* lines 61-67: the version is replaced; unwrap panics on a long version.
Simulator_update(p) ==
    /\ pc[p] = "update"
    /\ dev[p].kind = "Simulator"
    /\ Log(p, CallUpdate(cmd[p].version, cmd[p].checksum))
    /\ LET v == from_slice(cmd[p].version, VersionCap) IN
       IF IsSome(v)
       THEN /\ dev' = Upd(dev, p, [dev[p] EXCEPT !.version = v[1]])
            /\ after_update(p)
       ELSE /\ device_panic(p)
            /\ UNCHANGED dev
    /\ UNCHANGED <<svc, link>>

\* lines 72-77
Simulator_synced(p) ==
    /\ pc[p] = "synced"
    /\ dev[p].kind = "Simulator"
    /\ Log(p, CallSynced)
    /\ after_synced(p)
    /\ UNCHANGED <<svc, dev, link>>

(***************************************************************************)
(* service/serial.rs: request() awaits twice, once to send the Status and  *)
(* once to read the Command.                                               *)
(***************************************************************************)
\* lines 189-194 of updater.rs, for an Err of the Serial service
SerialService_err(p) ==
    /\ cmds' = Upd(cmds, p, Append(cmds[p], ServiceErr))
    /\ pc' = Upd(pc, p, "delay")
    /\ UNCHANGED <<state, next_state, poll_opt, status, cmd, result, cfg, sent, sleeps>>

\* lines 53-54: encode the Status, Err(Codec) when it does not fit; then
\* send the buffer, which waits while the channel is full.  svc.out holds
\* the chunks of a write that is waiting.
SerialService_write(p) ==
    /\ pc[p] = "race"
    /\ svc[p].kind = "Serial"
    /\ \E r \in {IF svc[p].out = <<>> THEN to_slice(ser_status(status[p]), svc[p].buf)
                 ELSE [ok |-> TRUE, buf |-> svc[p].buf]} :
       IF r.ok
       THEN \E out \in {IF svc[p].out = <<>> THEN chunks(r.buf) ELSE svc[p].out} :
            /\ svc[p].out # <<>> => Link_room(svc[p].tx) > 0
            /\ Link_write(svc[p].tx, out)
            /\ svc' = Upd(svc, p, [svc[p] EXCEPT
                           !.buf = r.buf, !.out = Link_write_rest(svc[p].tx, out)])
            /\ pc' = Upd(pc, p, IF Link_write_rest(svc[p].tx, out) = <<>>
                                THEN "read" ELSE "race")
            /\ UNCHANGED <<state, next_state, poll_opt, status, cmd, result, cfg,
                           sent, cmds, sleeps>>
       ELSE /\ SerialService_err(p)
            /\ svc' = Upd(svc, p, [svc[p] EXCEPT !.buf = r.buf])
            /\ UNCHANGED link
    /\ UNCHANGED <<dev, devlog>>

\* lines 56-63: wait for a frame and decode it as a Command.
SerialService_read(p) ==
    /\ pc[p] = "read"
    /\ svc[p].kind = "Serial"
    /\ Link_can_read(svc[p].rx)
    /\ \E buf \in {Link_read(svc[p].rx, svc[p].buf)} :
       \E c \in {de_command(buf)} :
       /\ svc' = Upd(svc, p, [svc[p] EXCEPT !.buf = buf])
       /\ IF c.ok THEN Receive(p, c.val) ELSE SerialService_err(p)
    /\ Link_pop(svc[p].rx)
    /\ UNCHANGED <<dev, devlog>>

\* updater.rs line 196 while request() waits in transport.write (the
\* channel is full, the Status is encoded and not sent) or in
\* transport.read (the Status frame stays sent): the timer wins and the
\* request future is dropped.
SerialService_timeout(p) ==
    /\ svc[p].kind = "Serial"
    /\ pc[p] = "read" \/ (pc[p] = "race" /\ svc[p].out # <<>>)
    /\ svc' = Upd(svc, p, [svc[p] EXCEPT !.out = <<>>, !.timer = FALSE])
    /\ cmds' = Upd(cmds, p, Append(cmds[p], TimedOut))
    /\ pc' = Upd(pc, p, "delay")
    /\ UNCHANGED <<state, next_state, poll_opt, status, cmd, result, cfg,
                   dev, link, devlog, sent, sleeps>>

\* The firmware lengths of the chain: empty, one byte, exactly one block of
\* the Serial device, the test's 1024 bytes, three blocks, and the first
\* length that takes five blocks, with which updater B builds six Status
\* frames while updater A reads one.
ChainFwLens == {0, 1, 968, 1024, 2000, 3873}

\* test_serial_chain, lines 9-26: Default config for both updaters; the
\* in-memory service targets the device's version, another one, or one of
\* seventeen bytes.
InitChain ==
    /\ InitUpdater({A, B})
    /\ cfg = [p \in {A, B} |-> [timeout_ms |-> 15000, backoff_ms |-> 1000]]
    /\ \E v \in {V1, V2, VLong}, n \in ChainFwLens :
         svc = [p \in {A, B} |->
                  IF p = A THEN InMemory(v, [i \in 1..n |-> 1])
                  ELSE SerialService("dest", "src")]
    /\ dev = [p \in {A, B} |->
                IF p = A THEN SerialDevice("src", "dest") ELSE Simulator(V1)]
    /\ link = [ch \in {"src", "dest"} |-> <<>>]

\* The steps of an updater of the chain other than the timer of its race.
ChainStep(p) ==
        \/ SerialDevice_status(p)
        \/ SerialDevice_start(p)
        \/ SerialDevice_write(p)
        \/ SerialDevice_update(p)
        \/ SerialDevice_synced(p)
        \/ Simulator_status(p)
        \/ Simulator_start(p)
        \/ Simulator_write(p)
        \/ Simulator_update(p)
        \/ Simulator_synced(p)
        \/ SendStatus(p)
        \/ InMemory_service_request(p)
        \/ SerialService_write(p)
        \/ SerialService_read(p)
        \/ Backoff(p)

\* Timeouts of the race of updater.rs 123-129 counted per updater.
MaxTimeouts == 3
Timeouts(p) == Cardinality({i \in 1..Len(cmds[p]) : cmds[p][i] = TimedOut})

\* Within a run every wait of the chain ends within a few one-second
\* sleeps of the other updater.  Fifteen seconds pass only while a request
\* of the Serial service waits and the other updater can do nothing: it
\* has returned and run is not yet called again, or it waits itself.
Idle_in_chain(q) ==
    \/ pc[q] = "done"
    \/ /\ dev[q].kind = "Serial"
       /\ \/ pc[q] = "init" /\ ~Link_can_read(dev[q].rx)
          \/ /\ pc[q] \in {"write", "update", "synced"}
             /\ dev[q].out # <<>> /\ Link_room(dev[q].tx) <= 0
    \/ /\ svc[q].kind = "Serial"
       /\ \/ pc[q] = "read" /\ ~Link_can_read(svc[q].rx)
          \/ pc[q] = "race" /\ svc[q].out # <<>> /\ Link_room(svc[q].tx) <= 0

\* updater.rs 124: the timer of the race becomes due while the request
\* waits; svc.timer says that delay_fut is ready.
Chain_timer_due(p) == svc[p].kind = "Serial" /\ svc[p].timer

Chain_timer_elapses(p) ==
    /\ svc[p].kind = "Serial"
    /\ ~svc[p].timer
    /\ Timeouts(p) < MaxTimeouts
    /\ \/ pc[p] = "read" /\ ~Link_can_read(svc[p].rx)
       \/ pc[p] = "race" /\ svc[p].out # <<>> /\ Link_room(svc[p].tx) <= 0
    /\ \A q \in DOMAIN pc \ {p} : Idle_in_chain(q)
    /\ svc' = Upd(svc, p, [svc[p] EXCEPT !.timer = TRUE])
    /\ UNCHANGED <<pc, state, next_state, poll_opt, status, cmd, result, cfg,
                   dev, link, devlog, sent, cmds, sleeps>>

\* updater.rs 129 and 196: select polls the timer first, so that a due
\* timer ends the request whatever has arrived in the meantime.
Chain_timeout(p) == Chain_timer_due(p) /\ SerialService_timeout(p)

\* One step of the run of updater p, the timer of its race included.
ChainRun(p) ==
    \/ (~Chain_timer_due(p) /\ ChainStep(p))
    \/ Chain_timer_elapses(p)
    \/ Chain_timeout(p)

NextChain == \E p \in DOMAIN pc : ChainRun(p)

SpecChain == InitChain /\ [][NextChain]_vars

(***************************************************************************)
(* The chain run again: run borrows the device and the service (updater.rs *)
(* 211-222), so the caller of a run that has returned can call run once    *)
(* more with the same device, service and link, where device.status() is   *)
(* the first thing awaited.                                                *)
(***************************************************************************)
MaxRuns == 2

\* Each run starts with one device.status().
Runs(p) == Cardinality({i \in 1..Len(devlog[p]) : devlog[p][i].op = "status"})

Rerun(p) ==
    /\ pc[p] = "done"
    /\ result[p] # Panicked
    /\ Runs(p) < MaxRuns
    /\ pc' = Upd(pc, p, "init")
    /\ result' = Upd(result, p, Running)
    /\ UNCHANGED <<state, next_state, poll_opt, status, cmd, cfg, svc, dev, link,
                   devlog, sent, cmds, sleeps>>

NextRerun ==
    \E p \in DOMAIN pc :
        \/ ChainRun(p)
        \/ Rerun(p)

SpecRerun == InitChain /\ [][NextRerun]_vars

(***************************************************************************)
(* run called again on the same Simulator and the same in-memory service   *)
(* (device/simulator.rs, service/memory.rs): the Simulator keeps the       *)
(* version that update() stored, the service keeps its target.             *)
(***************************************************************************)
\* Firmware of no byte, one byte, one block of the Simulator, three
\* blocks, and the 1024 bytes of the tests of updater.rs (lines 241-271),
\* whose two configurations are used.
AgainFwLens == {0, 1, 256, 600, 1024}

InitAgain ==
    /\ InitUpdater({U})
    /\ cfg \in {[p \in {U} |-> [timeout_ms |-> 1000, backoff_ms |-> b]] :
                  b \in {0, 10000}}
    /\ svc \in {[p \in {U} |-> InMemory(v, [i \in 1..n |-> 1])] :
                  v \in {V1, V2, V3}, n \in AgainFwLens}
    /\ dev \in {[p \in {U} |-> Simulator(v)] : v \in {V1, V2}}
    /\ link = <<>>

NextAgain ==
    \E p \in DOMAIN pc :
        \/ Simulator_status(p)
        \/ SendStatus(p)
        \/ InMemory_service_request(p)
        \/ Simulator_start(p)
        \/ Simulator_write(p)
        \/ Simulator_update(p)
        \/ Simulator_synced(p)
        \/ Backoff(p)
        \/ Rerun(p)

SpecAgain == InitAgain /\ [][NextAgain]_vars

(***************************************************************************)
(* The Serial service (service/serial.rs) on a wire whose far end may send *)
(* any frame: updater B drives the Simulator, and the peer answers each    *)
(* Status frame with a well-formed Command or with a malformed frame.      *)
(***************************************************************************)
\* A message at the front of an otherwise zero frame.
Frame(bytes) == bytes \o SubSeq(ZeroFrame, Len(bytes) + 1, FRAME_SIZE)

WireCommands ==
    {new_wait(Some(10), None), new_sync(V1, None, None),
     new_write(V2, 0, <<7>>, None), new_swap(V2, <<>>, None)}

\* Frames that are no Command: a variant index past Swap, an Option tag
\* that is neither 0 nor 1, and a byte string longer than the frame.
MalformedFrames ==
    {Frame(<<4>>), Frame(<<2, 1, 50, 2>>), Frame(<<1, 200, 9>>)}

WireFrames ==
    {Frame(Encoded(ser_command(c))) : c \in WireCommands} \cup MalformedFrames

\* The far end of the transport consumes a Status frame and sends a frame.
Peer_reply(p) ==
    /\ svc[p].kind = "Serial"
    /\ Link_can_read(svc[p].tx)
    /\ Len(link[svc[p].rx]) < LinkCap
    /\ \E f \in WireFrames :
         link' = [link EXCEPT ![svc[p].tx] = Tail(@), ![svc[p].rx] = Append(@, f)]
    /\ UNCHANGED <<pc, state, next_state, poll_opt, status, cmd, result, cfg, svc,
                   dev, devlog, sent, cmds, sleeps>>

InitWire ==
    /\ InitUpdater({B})
    /\ cfg = [p \in {B} |-> [timeout_ms |-> 15000, backoff_ms |-> 1000]]
    /\ svc = [p \in {B} |-> SerialService("dest", "src")]
    /\ dev = [p \in {B} |-> Simulator(V1)]
    /\ link = [ch \in {"src", "dest"} |-> <<>>]

NextWire ==
    \E p \in DOMAIN pc :
        \/ Simulator_status(p)
        \/ (Len(sent[p]) < MaxIter /\ SendStatus(p))
        \/ SerialService_write(p)
        \/ Peer_reply(p)
        \/ SerialService_read(p)
        \/ SerialService_timeout(p)
        \/ Simulator_start(p)
        \/ Simulator_write(p)
        \/ Simulator_synced(p)
        \/ Simulator_update(p)
        \/ Backoff(p)

SpecWire == InitWire /\ [][NextWire]_vars

(***************************************************************************)
(* The same wire when the far end may drop its Link: the channel is closed *)
(* behind the frames already sent, Link::read then finds recv() = None and *)
(* returns Ok(0) without touching the buffer (tests/serial.rs 69-75), and  *)
(* Link::write unwraps the Err of send (line 89).                          *)
(***************************************************************************)
Peer_hangup(p) ==
    /\ svc[p].kind = "Serial"
    /\ ~IsClosed(svc[p].rx)
    /\ link' = [link EXCEPT ![svc[p].rx] = Append(@, Closed)]
    /\ UNCHANGED <<pc, state, next_state, poll_opt, status, cmd, result, cfg, svc,
                   dev, devlog, sent, cmds, sleeps>>

\* service/serial.rs 53-54 after the hangup: the Status is encoded,
\* Err(Codec) when it does not fit; otherwise the task panics inside
\* transport.write, also when it was already waiting there.
SerialService_write_closed(p) ==
    /\ pc[p] = "race"
    /\ svc[p].kind = "Serial"
    /\ IsClosed(svc[p].rx)
    /\ \E r \in {IF svc[p].out = <<>> THEN to_slice(ser_status(status[p]), svc[p].buf)
                 ELSE [ok |-> TRUE, buf |-> svc[p].buf]} :
         /\ svc' = Upd(svc, p, [svc[p] EXCEPT !.buf = r.buf])
         /\ IF r.ok THEN device_panic(p) ELSE SerialService_err(p)
    /\ UNCHANGED <<dev, link, devlog>>

\* service/serial.rs 56-63 at the end of the channel: the count 0 that
\* read returns is dropped (let _ =) and the buffer, which read left as
\* it was, is decoded as a Command.
SerialService_read_closed(p) ==
    /\ pc[p] = "read"
    /\ svc[p].kind = "Serial"
    /\ Link_can_read(svc[p].rx)
    /\ Head(link[svc[p].rx]) = Closed
    /\ \E c \in {de_command(svc[p].buf)} :
         IF c.ok THEN Receive(p, c.val) ELSE SerialService_err(p)
    /\ UNCHANGED <<svc, dev, link, devlog>>

NextHangup ==
    \E p \in DOMAIN pc :
        \/ Simulator_status(p)
        \/ (Len(sent[p]) < MaxIter /\ SendStatus(p))
        \/ (~IsClosed(svc[p].rx) /\ SerialService_write(p))
        \/ SerialService_write_closed(p)
        \/ (~IsClosed(svc[p].rx) /\ Peer_reply(p))
        \/ Peer_hangup(p)
        \/ (Link_can_read(svc[p].rx) /\ Head(link[svc[p].rx]) # Closed
              /\ SerialService_read(p))
        \/ SerialService_read_closed(p)
        \/ SerialService_timeout(p)
        \/ Simulator_start(p)
        \/ Simulator_write(p)
        \/ Simulator_synced(p)
        \/ Simulator_update(p)
        \/ Backoff(p)

SpecHangup == InitWire /\ [][NextHangup]_vars

(***************************************************************************)
(* The race of updater.rs lines 123-129 polled as futures::future::select  *)
(* polls it: the timer first, the request only when the timer is pending.  *)
(* svc holds the two futures of the race: timer_at and resp_at are the     *)
(* iteration (the number of Statuses sent) in which each became ready.     *)
(***************************************************************************)
RacedService == [kind |-> "Raced", response |-> NoCommand, resp_at |-> 0, timer_at |-> 0]

\* The request future becomes ready with Ok(c).
Service_ready(p) ==
    /\ pc[p] = "race"
    /\ svc[p].kind = "Raced"
    /\ svc[p].resp_at # Len(sent[p])
    /\ \E c \in WireCommands :
         svc' = Upd(svc, p, [svc[p] EXCEPT !.response = c, !.resp_at = Len(sent[p])])
    /\ UNCHANGED <<pc, state, next_state, poll_opt, status, cmd, result, cfg, dev,
                   link, devlog, sent, cmds, sleeps>>

\* delay_ms(timeout_ms) becomes ready.
Timer_elapses(p) ==
    /\ pc[p] = "race"
    /\ svc[p].kind = "Raced"
    /\ svc[p].timer_at # Len(sent[p])
    /\ svc' = Upd(svc, p, [svc[p] EXCEPT !.timer_at = Len(sent[p])])
    /\ UNCHANGED <<pc, state, next_state, poll_opt, status, cmd, result, cfg, dev,
                   link, devlog, sent, cmds, sleeps>>

\* select polls delay_fut first: Either::Left, line 196.
Select_timer(p) ==
    /\ svc[p].kind = "Raced"
    /\ svc[p].timer_at = Len(sent[p])
    /\ Timeout(p)

\* Variant: the request is polled first.
Select_service_first(p) ==
    /\ pc[p] = "race"
    /\ svc[p].kind = "Raced"
    /\ svc[p].resp_at = Len(sent[p])
    /\ Receive(p, svc[p].response)
    /\ UNCHANGED <<svc, dev, link, devlog>>

\* select polls cmd_fut when delay_fut was pending: Either::Right, line 130.
Select_service(p) ==
    /\ pc[p] = "race"
    /\ svc[p].kind = "Raced"
    /\ svc[p].timer_at # Len(sent[p])
    /\ svc[p].resp_at = Len(sent[p])
    /\ Receive(p, svc[p].response)
    /\ UNCHANGED <<svc, dev, link, devlog>>

InitRace ==
    /\ InitUpdater({U})
    /\ cfg \in {[p \in {U} |-> [timeout_ms |-> t, backoff_ms |-> 1000]] : t \in {0, 1000}}
    /\ svc = [p \in {U} |-> RacedService]
    /\ dev = [p \in {U} |-> GenericDevice(MaxMtu, Idle(V1), FALSE)]
    /\ link = <<>>

NextRace ==
    \E p \in DOMAIN pc :
        \/ Generic_status(p)
        \/ (Len(sent[p]) < MaxIter /\ SendStatus(p))
        \/ Service_ready(p)
        \/ Timer_elapses(p)
        \/ Select_timer(p)
        \/ Select_service(p)
        \/ Generic_start(p)
        \/ Generic_write(p)
        \/ Generic_synced(p)
        \/ Generic_update(p)
        \/ Backoff(p)

SpecRace == InitRace /\ [][NextRace]_vars

(***************************************************************************)
(* InMemory::request called once with any Status: the service is a public  *)
(* UpdateService and answers whatever Status it is handed, with or without *)
(* an MTU, a correlation id and an update in progress.                     *)
(***************************************************************************)
RequestFwLens == {0, 3, 20, 200}
RequestOffsets == {0, 1, 3, 19, 20, 150, 250, 2147483647}
RequestMtus == {None, Some(0), Some(1), Some(4), Some(200)}
RequestIds == {None, Some(0), Some(5)}

RequestStatuses ==
    {Status_first(v, m, c) : v \in {V1, V2}, m \in RequestMtus, c \in RequestIds}
    \cup {Status_update(v, m, o, n, c) :
            v \in {V1, V2}, m \in RequestMtus, o \in RequestOffsets,
            n \in {V1, V2, V3}, c \in RequestIds}

\* The updater is inside the race of an iteration whose Status is s.
InitRequest ==
    /\ pc = [p \in {U} |-> "race"]
    /\ status \in {[p \in {U} |-> s] : s \in RequestStatuses}
    /\ sent = [p \in {U} |-> <<status[p]>>]
    /\ svc \in {[p \in {U} |-> InMemory(V2, Firmware(n))] : n \in RequestFwLens}
    /\ dev = [p \in {U} |-> GenericDevice(MaxMtu, Idle(V1), FALSE)]
    /\ state = [p \in {U} |-> NoState]
    /\ next_state = [p \in {U} |-> NoState]
    /\ poll_opt = [p \in {U} |-> None]
    /\ cmd = [p \in {U} |-> NoCommand]
    /\ result = [p \in {U} |-> Running]
    /\ cfg = [p \in {U} |-> [timeout_ms |-> 1000, backoff_ms |-> 0]]
    /\ devlog = [p \in {U} |-> <<>>]
    /\ cmds = [p \in {U} |-> <<>>]
    /\ sleeps = [p \in {U} |-> <<>>]
    /\ link = <<>>

NextRequest == \E p \in DOMAIN pc : InMemory_service_request(p)

SpecRequest == InitRequest /\ [][NextRequest]_vars

(***************************************************************************)
(* Reading the histories.                                                  *)
(***************************************************************************)
Calls(p, op) == {i \in 1..Len(devlog[p]) : devlog[p][i].op = op}
Returned(p) == pc[p] = "done"
ReturnedOk(p) == result[p].tag \in {"Synced", "Updated"}
Target(p) == svc[p].expected_version
Fw(p) == svc[p].expected_firmware

(***************************************************************************)
(* C1. Termination shape: whenever run returns Ok it returns Synced or     *)
(* Updated, and the last device operation invoked was synced() for Synced  *)
(* and update() for Updated, whatever timeouts, service errors, Wait and   *)
(* Write commands came before the final command.                           *)
(***************************************************************************)
C1_TerminationShape ==
    (Returned(U) /\ result[U].tag \notin {"Err", "Panic"}) =>
        /\ result[U].tag \in {"Synced", "Updated"}
        /\ Len(devlog[U]) > 0
        /\ (result[U].tag = "Synced") <=> (Last(devlog[U]).op = "synced")
        /\ (result[U].tag = "Updated") <=> (Last(devlog[U]).op = "update")

\* Updated after a timeout, a service error and a Write.
C1_Witness ==
    /\ result[U].tag = "Updated"
    /\ Len(cmds[U]) = 3
    /\ cmds[U][1].tag \in {"Timeout", "Err"}
    /\ cmds[U][2].tag = "Write"

(***************************************************************************)
(* C2. Cold update: against the in-memory service targeting v with a       *)
(* firmware of length L, a device at another version with no update in     *)
(* progress and MTU M >= 1 is driven through exactly start(v), the writes  *)
(* at 0, M, 2M, ... that cut the firmware into contiguous blocks, and      *)
(* update(v, checksum); run then returns Updated.                          *)
(***************************************************************************)
Cold(p) ==
    /\ dev[p].status.current_version # Target(p)
    /\ dev[p].status.next_version = None

\* The blocks of fw for MTU m: one per started multiple of m below the
\* length, and a single empty block for an empty firmware.
ColdWrites(fw, m) ==
    IF Len(fw) = 0 THEN <<CallWrite(0, <<>>)>>
    ELSE [i \in 1..((Len(fw) + m - 1) \div m) |->
            CallWrite((i - 1) * m, SubSeq(fw, (i - 1) * m + 1, Min(i * m, Len(fw))))]

ColdLog(p) ==
    <<CallStatus, CallStart(Target(p))>>
        \o ColdWrites(Fw(p), dev[p].mtu)
        \o <<CallUpdate(Target(p), <<>>)>>

C2_ColdUpdate ==
    [](Cold(U) => <>(result[U].tag = "Updated" /\ devlog[U] = ColdLog(U)))

\* The unit test: L = 1024, M = 256, four writes of 256 bytes, then Swap.
C2_Witness ==
    /\ Cold(U)
    /\ Len(Fw(U)) = 1024
    /\ dev[U].mtu = 256
    /\ result[U].tag = "Updated"
    /\ Len(devlog[U]) = 7
    /\ \A i \in 1..4 :
         devlog[U][i + 2] = CallWrite((i - 1) * 256, [j \in 1..256 |-> 1])
    /\ Last(cmds[U]).tag = "Swap"

(***************************************************************************)
(* C3. Already synced: when the device's current version is the service's  *)
(* target, run makes exactly one request, receives Sync, calls synced()    *)
(* and returns Synced; start, write and update are never called.           *)
(***************************************************************************)
AlreadySynced(p) == dev[p].status.current_version = Target(p)

C3_AlreadySynced ==
    /\ [](AlreadySynced(U) =>
            /\ Len(sent[U]) <= 1
            /\ Calls(U, "start") \cup Calls(U, "write") \cup Calls(U, "update") = {})
    /\ [](AlreadySynced(U) =>
            <>(/\ result[U].tag = "Synced"
               /\ Len(sent[U]) = 1
               /\ Len(cmds[U]) = 1 /\ cmds[U][1].tag = "Sync"
               /\ devlog[U] = <<CallStatus, CallSynced>>))

\* Synced with an empty firmware while the device reports an update in progress.
C3_Witness ==
    /\ AlreadySynced(U)
    /\ result[U].tag = "Synced"
    /\ Len(Fw(U)) = 0
    /\ IsSome(dev[U].status.next_version)

(***************************************************************************)
(* C4. Poll hint honored: a Sync carrying poll = Some(p) with p > 0 makes  *)
(* run return Synced(Some(p)), whatever backoff_ms is.                     *)
(***************************************************************************)
C4_PollHintHonored ==
    (ReturnedOk(U) /\ Last(cmds[U]).tag = "Sync"
        /\ IsSome(Last(cmds[U]).poll) /\ Last(cmds[U]).poll[1] > 0) =>
            result[U] = [tag |-> "Synced", wait |-> Some(Last(cmds[U]).poll[1])]

C4_Witness ==
    /\ result[U] = [tag |-> "Synced", wait |-> Some(10)]
    /\ cfg[U].backoff_ms = 1000

(***************************************************************************)
(* C5. A Sync with no poll hint or with poll = Some(0) makes run return    *)
(* Synced(Some(backoff_ms / 1000)), integer division: never None, 10 for   *)
(* backoff_ms = 10000 and 0 for backoff_ms < 1000.                         *)
(***************************************************************************)
C5_DefaultWait ==
    (ReturnedOk(U) /\ Last(cmds[U]).tag = "Sync"
        /\ Last(cmds[U]).poll \in {None, Some(0)}) =>
            /\ result[U].tag = "Synced"
            /\ IsSome(result[U].wait)
            /\ result[U].wait[1] * 1000 <= cfg[U].backoff_ms
            /\ cfg[U].backoff_ms < (result[U].wait[1] + 1) * 1000
            /\ (cfg[U].backoff_ms = 10000 => result[U].wait = Some(10))
            /\ (cfg[U].backoff_ms < 1000 => result[U].wait = Some(0))

C5_Witness ==
    /\ result[U] = [tag |-> "Synced", wait |-> Some(0)]
    /\ cfg[U].backoff_ms = 999
    /\ Last(cmds[U]) = new_sync(V1, Some(0), None)

(***************************************************************************)
(* C6. Exactly-one swap: device.update is invoked at most once in a run,   *)
(* and once it has been invoked the run makes no further device operation  *)
(* and no further service request.                                         *)
(***************************************************************************)
C6_ExactlyOneSwap ==
    /\ [](Cardinality(Calls(U, "update")) <= 1)
    /\ [][Calls(U, "update") # {} =>
            (devlog'[U] = devlog[U] /\ sent'[U] = sent[U] /\ cmds'[U] = cmds[U])]_vars

\* update was invoked after retries (a timeout and a service error).
C6_Witness ==
    /\ Calls(U, "update") # {}
    /\ \E i, j \in 1..Len(cmds[U]) : cmds[U][i].tag = "Timeout" /\ cmds[U][j].tag = "Err"

(***************************************************************************)
(* C7. Start precedes write.  As claimed: device.start(v) is observed at   *)
(* most once per target version and every device.write comes after a       *)
(* device.start of the run.                                                *)
(***************************************************************************)
C7_StartOnceBeforeWrites ==
    /\ \A i, j \in Calls(U, "start") :
         devlog[U][i].version = devlog[U][j].version => i = j
    /\ \A i \in Calls(U, "write") : \E j \in Calls(U, "start") : j < i

(***************************************************************************)
(* C7 as amended: device.start(v) is invoked exactly for the Write         *)
(* commands with offset 0, with that command's version and immediately     *)
(* before that command's device.write(0, data); a Write with a non-zero    *)
(* offset is written without a start.                                      *)
(***************************************************************************)
WritesAtZero(p) == SelectSeq(cmds[p], LAMBDA c : c.tag = "Write" /\ c.offset = 0)
Starts(p) == SelectSeq(devlog[p], LAMBDA e : e.op = "start")

C7_StartWithEveryFirstBlock ==
    /\ \A i \in Calls(U, "start") :
         i < Len(devlog[U]) => devlog[U][i + 1].op = "write" /\ devlog[U][i + 1].offset = 0
    /\ \A i \in Calls(U, "write") :
         (devlog[U][i].offset = 0) <=> (devlog[U][i - 1].op = "start")
    /\ Len(Starts(U)) <= Len(WritesAtZero(U))
    /\ Len(WritesAtZero(U)) <= Len(Starts(U)) + 1
    /\ \A k \in 1..Len(Starts(U)) : Starts(U)[k].version = WritesAtZero(U)[k].version

\* Two starts of the same version in one run, and a write at a non-zero
\* offset in between that no start precedes directly.
C7_Witness ==
    /\ Len(Starts(U)) = 2
    /\ Starts(U)[1] = Starts(U)[2]
    /\ \E i \in Calls(U, "write") : devlog[U][i].offset # 0

(***************************************************************************)
(* C8. MTU respected: every device.write(offset, data) a device receives   *)
(* carries at most that device's MTU bytes, in the direct configuration    *)
(* and at the Simulator (MTU 256) behind the serial front (MTU 968).       *)
(***************************************************************************)
C8_MtuRespected ==
    \A p \in DOMAIN pc :
        \A i \in Calls(p, "write") : Len(devlog[p][i].data) <= dev[p].mtu

(***************************************************************************)
(* C9. Monotone offset: over consecutive Write commands for the same       *)
(* target version the next_offset reported in successive Status messages   *)
(* strictly increases by exactly the length of each accepted block, and    *)
(* the next write offset is the previous offset plus the previous length.  *)
(***************************************************************************)
ConsecutiveWrites(p) ==
    {i \in 1..(Len(cmds[p]) - 1) :
        /\ cmds[p][i].tag = "Write" /\ cmds[p][i + 1].tag = "Write"
        /\ cmds[p][i].version = cmds[p][i + 1].version}

C9_MonotoneOffset ==
    \A i \in ConsecutiveWrites(U) :
        /\ cmds[U][i + 1].offset = cmds[U][i].offset + Len(cmds[U][i].data)
        /\ (IsSome(sent[U][i].update) /\ Len(sent[U]) > i) =>
              /\ sent[U][i + 1].update[1].offset
                    = sent[U][i].update[1].offset + Len(cmds[U][i].data)
              /\ sent[U][i + 1].update[1].offset > sent[U][i].update[1].offset

(***************************************************************************)
(* C10. Offset reset on version change: update.offset in Status does not   *)
(* decrease while update.version stays the same, and when update.version   *)
(* changes the offset restarts from 0: the Status after the first block    *)
(* reports offset = len(block).                                            *)
(***************************************************************************)
C10_OffsetResetOnVersionChange ==
    \A i \in 1..(Len(sent[U]) - 1) :
        (IsSome(sent[U][i].update) /\ IsSome(sent[U][i + 1].update)) =>
            LET a == sent[U][i].update[1]
                b == sent[U][i + 1].update[1]
            IN IF a.version = b.version
               THEN b.offset >= a.offset
               ELSE cmds[U][i].tag = "Write" /\ b.offset = Len(cmds[U][i].data)

(***************************************************************************)
(* C11. Swap only after a complete image: whenever device.update is        *)
(* invoked in a run against the in-memory service, the progress the device *)
(* reported for the target version at the start together with the writes   *)
(* it received covers every byte [0, L) of the firmware, whatever status   *)
(* the device started with.                                                *)
(***************************************************************************)
\* Byte positions (from 0) the device holds for the target version.
ReportedProgress(p) ==
    IF dev[p].status.next_version = Some(Target(p))
    THEN 0..(dev[p].status.next_offset - 1)
    ELSE {}

WrittenBytes(p) ==
    UNION {devlog[p][i].offset..(devlog[p][i].offset + Len(devlog[p][i].data) - 1) :
             i \in Calls(p, "write")}

C11_SwapOnlyAfterCompleteImage ==
    (Calls(U, "update") # {}) =>
        (0..(Len(Fw(U)) - 1)) \subseteq (ReportedProgress(U) \cup WrittenBytes(U))

(***************************************************************************)
(* C12. Timeout is transient and side-effect free: when the timer wins the *)
(* race no device operation is invoked in that iteration, the progress     *)
(* state (current_version, next_version, next_offset) is unchanged, the    *)
(* next Status sent equals the previous one, and device.status is called   *)
(* exactly once per run.                                                   *)
(***************************************************************************)
\* The outcome of the race of the iteration the updater is in or just left.
LastOutcome(p) == IF Len(cmds[p]) = 0 THEN "none" ELSE Last(cmds[p]).tag

C12_TimeoutSideEffectFree ==
    /\ [](\A i \in 1..Len(cmds[U]) :
            (cmds[U][i].tag = "Timeout" /\ Len(sent[U]) > i) =>
                sent[U][i + 1] = sent[U][i])
    /\ [](Cardinality(Calls(U, "status")) = IF pc[U] = "init" THEN 0 ELSE 1)
    /\ []((LastOutcome(U) = "Timeout" /\ pc[U] = "delay") => next_state[U] = state[U])
    /\ [][LastOutcome(U)' = "Timeout" =>
            (state'[U] = state[U] /\ (cmds'[U] # cmds[U] => devlog' = devlog))]_vars
    /\ [][devlog' # devlog => LastOutcome(U) # "Timeout"]_vars

\* Two timeouts in a row, then a command: three identical Status messages.
C12_Witness ==
    /\ Len(cmds[U]) = 3
    /\ cmds[U][1].tag = "Timeout" /\ cmds[U][2].tag = "Timeout"
    /\ cmds[U][3].tag = "Sync"
    /\ Len(sent[U]) = 3 /\ sent[U][3] = sent[U][1]
    /\ IsSome(sent[U][1].update)
    /\ result[U].tag = "Synced"

(***************************************************************************)
(* C13. Service errors are transient: when service.request returns Err,    *)
(* run does not fail (it never returns Error::Service), no device          *)
(* operation is invoked in that iteration, the progress state is           *)
(* unchanged, and after the backoff delay the same Status is sent again.   *)
(***************************************************************************)
C13_ServiceErrorsTransient ==
    /\ [](result[U].tag = "Err" => result[U].error # "Service")
    /\ [](LastOutcome(U) = "Err" =>
            /\ pc[U] \in {"delay", "loop", "race"}
            /\ result[U] = Running
            /\ pc[U] = "delay" => next_state[U] = state[U])
    /\ [](\A i \in 1..Len(cmds[U]) :
            (cmds[U][i].tag = "Err" /\ Len(sent[U]) > i) =>
                sent[U][i + 1] = sent[U][i])
    /\ [][LastOutcome(U)' = "Err" =>
            (state'[U] = state[U] /\ (cmds'[U] # cmds[U] => devlog' = devlog))]_vars
    /\ [][devlog' # devlog => LastOutcome(U) # "Err"]_vars

\* A service error, the backoff sleep, the same Status again, then a Swap.
C13_Witness ==
    /\ Len(cmds[U]) = 2
    /\ cmds[U][1].tag = "Err" /\ cmds[U][2].tag = "Swap"
    /\ Len(sent[U]) = 2 /\ sent[U][2] = sent[U][1]
    /\ Len(sleeps[U]) = 1
    /\ result[U].tag = "Updated"
    /\ devlog[U] = <<CallStatus, CallUpdate(V2, <<>>)>>

(***************************************************************************)
(* C14. Device errors are fatal: if any device operation (status, start,   *)
(* write, update or synced) returns an error, run returns                  *)
(* Err(Error::Device(e)) for that operation's error, and no further device *)
(* operation or service request is made in that run.                       *)
(***************************************************************************)
DeviceErred(p) == \E i \in 1..Len(devlog[p]) : IsFailed(devlog[p][i])

C14_DeviceErrorsFatal ==
    /\ [](\A i \in 1..Len(devlog[U]) :
            IsFailed(devlog[U][i]) =>
                /\ i = Len(devlog[U])
                /\ pc[U] = "done"
                /\ result[U] = ErrDevice(devlog[U][i].op))
    /\ []((result[U].tag = "Err" /\ result[U].error = "Device") => DeviceErred(U))
    /\ [][DeviceErred(U) => (devlog' = devlog /\ sent' = sent /\ cmds' = cmds)]_vars

\* start succeeded and the write of the block failed.
C14_Witness ==
    /\ Len(devlog[U]) = 3
    /\ devlog[U][2] = CallStart(V2)
    /\ devlog[U][3] = Failed(CallWrite(0, <<7>>))
    /\ result[U] = ErrDevice("write")

(***************************************************************************)
(* C15. A Write command whose version does not fit the device's bounded    *)
(* version type (more than 16 bytes for heapless Vec<u8, 16>) makes run    *)
(* abort with Error::DecodeVersion; the command never advances the         *)
(* updater's next_offset / next_version and is never retried.  Read on the *)
(* chain, where updater A drives the Serial device: once A has got such a  *)
(* Write it gets and sends nothing more, its state is the one its Status   *)
(* reported, and when its run has returned it has returned DecodeVersion.  *)
(***************************************************************************)
LongWrite(p, c) == c.tag = "Write" /\ Len(c.version) > dev[p].cap

C15_DecodeVersionFatal ==
    \A i \in 1..Len(cmds[A]) :
        LongWrite(A, cmds[A][i]) =>
            /\ i = Len(cmds[A]) /\ i = Len(sent[A])
            /\ BuildStatus(state[A], dev[A].mtu) = sent[A][i]
            /\ pc[A] = "done" => result[A] = ErrDecodeVersion

(***************************************************************************)
(* C16. Codec errors are fatal in the current run: when the frame received *)
(* by the framed-serial service does not decode into a Command and the     *)
(* service reports a Codec error, run aborts with an error instead of      *)
(* continuing the loop.  (On this wire every Err of the service is a Codec *)
(* error of the received frame.)                                           *)
(***************************************************************************)
C16_CodecErrorsFatal ==
    \A i \in 1..Len(cmds[B]) :
        cmds[B][i].tag = "Err" =>
            /\ i = Len(cmds[B])
            /\ pc[B] = "done"
            /\ result[B].tag = "Err"

(***************************************************************************)
(* C17. Sync version check: a Sync command whose version differs from the  *)
(* device's current version is treated as an error or a no-op: it does not *)
(* cause device.synced() to be called and does not make run return Synced. *)
(***************************************************************************)
C17_SyncVersionCheck ==
    \A i \in 1..Len(cmds[U]) :
        (cmds[U][i].tag = "Sync" /\ cmds[U][i].version # state[U].current_version) =>
            /\ Calls(U, "synced") = {}
            /\ result[U].tag # "Synced"

(***************************************************************************)
(* C18. Reference service decision function: for every Status S and target *)
(* (expected_version, firmware of length L), InMemory::request returns     *)
(* Sync if S.version = expected_version; else, if S.update is present with *)
(* update.version = expected_version, Swap when update.offset >= L and     *)
(* otherwise Write{offset = update.offset, data = firmware[offset ..        *)
(* offset + N]} with N = min(S.mtu or 16, L - offset); else                *)
(* Write{offset = 0, data = firmware[.. N]} with N = min(S.mtu or 128, L). *)
(***************************************************************************)
\* The tag, and for Write the offset and data, the claim prescribes.
Decision(s, version, fw) ==
    IF s.version = version THEN [tag |-> "Sync"]
    ELSE IF IsSome(s.update) /\ s.update[1].version = version
    THEN LET o == s.update[1].offset
             n == Min(IF IsSome(s.mtu) THEN s.mtu[1] ELSE 16, Len(fw) - o) IN
         IF o >= Len(fw) THEN [tag |-> "Swap"]
         ELSE [tag |-> "Write", offset |-> o,
               data |-> [i \in 1..n |-> fw[o + i]]]
    ELSE LET n == Min(IF IsSome(s.mtu) THEN s.mtu[1] ELSE 128, Len(fw)) IN
         [tag |-> "Write", offset |-> 0, data |-> [i \in 1..n |-> fw[i]]]

Answer(c) ==
    IF c.tag = "Write"
    THEN [tag |-> "Write", offset |-> c.offset, data |-> c.data]
    ELSE [tag |-> c.tag]

C18_DecisionFunction ==
    (Len(cmds[U]) = 1) =>
        Answer(cmds[U][1]) = Decision(sent[U][1], Target(U), Fw(U))

\* Resuming without an MTU in the Status: a block of 16 bytes at offset 3.
C18_Witness ==
    /\ Len(cmds[U]) = 1
    /\ sent[U][1].mtu = None
    /\ Len(Fw(U)) = 200
    /\ cmds[U][1].tag = "Write" /\ cmds[U][1].offset = 3
    /\ Len(cmds[U][1].data) = 16

(***************************************************************************)
(* C19. Every Swap command issued by the in-memory reference service       *)
(* carries a checksum of 32 zero bytes, and that checksum is what the      *)
(* updater passes to device.update.                                        *)
(***************************************************************************)
C19_SwapChecksum ==
    \A i \in 1..Len(cmds[U]) :
        cmds[U][i].tag = "Swap" =>
            /\ cmds[U][i].checksum = [j \in 1..32 |-> 0]
            /\ \A k \in Calls(U, "update") :
                 devlog[U][k].checksum = cmds[U][i].checksum

(***************************************************************************)
(* C20. Correlation echo: for every non-Wait Command that answers a        *)
(* Status, if both the Status and the Command carry a correlation id then  *)
(* the two ids are equal; in particular every Sync, Write and Swap         *)
(* produced by the in-memory service carries exactly the Status's          *)
(* correlation_id.                                                         *)
(***************************************************************************)
C20_CorrelationEcho ==
    \A i \in 1..Len(cmds[U]) :
        cmds[U][i].tag \in {"Sync", "Write", "Swap"} =>
            /\ cmds[U][i].correlation_id = sent[U][i].correlation_id
            /\ (IsSome(cmds[U][i].correlation_id) /\ IsSome(sent[U][i].correlation_id)) =>
                  cmds[U][i].correlation_id[1] = sent[U][i].correlation_id[1]

\* A Swap echoing correlation id 5.
C20_Witness ==
    /\ Len(cmds[U]) = 1
    /\ cmds[U][1].tag = "Swap"
    /\ sent[U][1].correlation_id = Some(5)
    /\ cmds[U][1].correlation_id = Some(5)

(***************************************************************************)
(* C22: serial chain.  With updater A (in-memory service targeting "2",    *)
(* driving the Serial device) and updater B (Serial service on the other   *)
(* end of the link, driving a Simulator at "1") running concurrently over  *)
(* the link of two four-frame channels, under every interleaving both runs *)
(* eventually return Ok (no deadlock, no error) and the Simulator's final  *)
(* version is "2".  In the form a finite run refutes: no run has returned  *)
(* anything but Ok, no run is left waiting for the other one once that one *)
(* has returned, and the Simulator is at "2" once both have returned.      *)
(***************************************************************************)
ChainDone ==
    /\ Returned(A) /\ ReturnedOk(A)
    /\ Returned(B) /\ ReturnedOk(B)
    /\ dev[B].version = V2

\* A run waits for a frame or for a free slot of a channel whose other end
\* belongs to a run that has returned.
ChainDeadlock ==
    \E p, q \in {A, B} :
        /\ p # q
        /\ Returned(q)
        /\ ~Returned(p)
        /\ Idle_in_chain(p)

C22_SerialChain ==
    Target(A) = V2 =>
        /\ \A p \in {A, B} : result[p].tag \in {"Running", "Synced", "Updated"}
        /\ (Returned(A) /\ Returned(B)) => ChainDone
        /\ ~ChainDeadlock

(***************************************************************************)
(* C23: resume after partial.  As stated: when the device's initial status *)
(* reports next_version equal to the service's target and                  *)
(* 0 < next_offset < L, the first Status carries update = (target,         *)
(* next_offset), the first reply is Write at next_offset with the next     *)
(* min(MTU, L - next_offset) bytes of the firmware, and device.start is    *)
(* never called during the run.                                            *)
(***************************************************************************)
Resume(p) ==
    /\ dev[p].status.next_version = Some(Target(p))
    /\ dev[p].status.next_offset > 0
    /\ dev[p].status.next_offset < Len(Fw(p))

ResumeBlock(p) ==
    LET o == dev[p].status.next_offset IN
    SubSeq(Fw(p), o + 1, o + Min(dev[p].mtu, Len(Fw(p)) - o))

Resumes(p) ==
    /\ Len(sent[p]) >= 1 =>
         sent[p][1].update =
             Some([version |-> Target(p), offset |-> dev[p].status.next_offset])
    /\ Len(cmds[p]) >= 1 =>
         cmds[p][1] = new_write(Target(p), dev[p].status.next_offset,
                                ResumeBlock(p), None)
    /\ Calls(p, "start") = {}

C23_ResumeAsStated == Resume(U) => Resumes(U)

\* C23 as it holds: the same, for a device whose current version differs
\* from the target; a device already at the target is answered with Sync.
C23_Resume ==
    (Resume(U) /\ dev[U].status.current_version # Target(U)) => Resumes(U)

\* A run resumed at offset 1 of four bytes with MTU 2 has written the two
\* remaining blocks, the second a short one, and swapped without a start.
C23_Witness ==
    /\ Resume(U)
    /\ dev[U].status.current_version # Target(U)
    /\ dev[U].status.next_offset = 1
    /\ dev[U].mtu = 2
    /\ Len(Fw(U)) = 4
    /\ Returned(U)
    /\ result[U].tag = "Updated"
    /\ Cardinality(Calls(U, "write")) = 2

(***************************************************************************)
(* C24: firmware length an exact multiple of the MTU.  As stated: when     *)
(* L = k*M with M the device's MTU, a cold update performs exactly k       *)
(* writes, each of exactly M bytes, the request following the last         *)
(* full-sized write is answered with Swap, and no zero-length or short     *)
(* Write is ever issued.                                                   *)
(***************************************************************************)
Multiple(p) == Len(Fw(p)) % dev[p].mtu = 0
Blocks(p) == Len(Fw(p)) \div dev[p].mtu
WriteCommands(p) == {i \in 1..Len(cmds[p]) : cmds[p][i].tag = "Write"}

FullBlocksThenSwap(p) ==
    /\ \A i \in WriteCommands(p) : Len(cmds[p][i].data) = dev[p].mtu
    /\ \A i \in Calls(p, "write") : Len(devlog[p][i].data) = dev[p].mtu
    /\ Cardinality(Calls(p, "write")) <= Blocks(p)
    /\ Returned(p) => Cardinality(Calls(p, "write")) = Blocks(p)
    /\ \A i \in WriteCommands(p) :
         (cmds[p][i].offset + dev[p].mtu = Len(Fw(p)) /\ Len(cmds[p]) > i)
             => cmds[p][i + 1].tag = "Swap"
    /\ \A i \in 1..Len(cmds[p]) :
         cmds[p][i].tag = "Swap" =>
             /\ i > 1
             /\ cmds[p][i - 1].tag = "Write"
             /\ cmds[p][i - 1].offset + dev[p].mtu = Len(Fw(p))

C24_ExactMultipleAsStated == (Cold(U) /\ Multiple(U)) => FullBlocksThenSwap(U)

\* C24 as it holds: the same for k >= 1; an empty firmware (k = 0) is sent
\* to a cold device as one zero-length Write at offset 0, then Swap.
C24_ExactMultiple ==
    /\ (Cold(U) /\ Multiple(U) /\ Blocks(U) >= 1) => FullBlocksThenSwap(U)
    /\ (Cold(U) /\ Len(Fw(U)) = 0) =>
         /\ \A i \in Calls(U, "write") : devlog[U][i] = CallWrite(0, <<>>)
         /\ Returned(U) => Cardinality(Calls(U, "write")) = 1

\* Four bytes in two blocks of two: two full writes, then Swap, returned.
C24_Witness ==
    /\ Cold(U)
    /\ Len(Fw(U)) = 4
    /\ dev[U].mtu = 2
    /\ Returned(U)
    /\ Cardinality(Calls(U, "write")) = 2
    /\ Len(cmds[U]) = 3
    /\ cmds[U][3].tag = "Swap"

(***************************************************************************)
(* C25: a device reports an update in progress exactly when it has         *)
(* received a Write since its last Sync, Swap or reset; after              *)
(* device.update or device.synced the next status of the Simulator or of   *)
(* the Serial device reports no update in progress.                        *)
(***************************************************************************)
\* device.status() has just returned: state holds what it reported.
JustReported(p) ==
    /\ pc[p] = "loop"
    /\ Len(devlog[p]) > 0
    /\ Last(devlog[p]).op = "status"

\* A write was accepted after the last update or synced of the device.
WrittenSince(p) ==
    \E i \in Calls(p, "write") :
        \A j \in (i + 1)..Len(devlog[p]) : devlog[p][j].op \notin {"update", "synced"}

C25_InProgressIffWritten ==
    \A p \in {A, B} :
        JustReported(p) => (IsSome(state[p].next_version) <=> WrittenSince(p))

(***************************************************************************)
(* C27: delay errors are fatal.  If a sleep (delay_ms) fails during run,   *)
(* run aborts and returns Error::Delay.                                    *)
(***************************************************************************)
ErrDelay == [tag |-> "Err", error |-> "Delay"]

C27_DelayErrorsFatal ==
    (\E i \in 1..Len(sleeps[U]) : IsSleepFailed(sleeps[U][i])) =>
        (Returned(U) /\ result[U] = ErrDelay)

(***************************************************************************)
(* C28: Wait leaves everything unchanged.  Processing a Wait command       *)
(* invokes no device operation, leaves the reported state unchanged (the   *)
(* next Status equals the previous one), does not terminate run, and makes *)
(* the updater sleep poll seconds when poll > 0 and backoff_ms / 1000      *)
(* seconds when poll is None or 0.                                         *)
(***************************************************************************)
WaitSeconds(p, c) ==
    IF IsSome(c.poll) /\ c.poll[1] > 0 THEN c.poll[1] ELSE cfg[p].backoff_ms \div 1000

\* Every iteration of SpecWait that did not get Sync ends with one sleep.
C28_WaitUnchanged ==
    /\ (Len(cmds[U]) > 0 /\ \A i \in 1..Len(cmds[U]) : cmds[U][i].tag = "Wait")
         => devlog[U] = <<CallStatus>>
    /\ \A i \in 1..Len(cmds[U]) :
         cmds[U][i].tag = "Wait" =>
            /\ Len(sent[U]) > i => sent[U][i + 1] = sent[U][i]
            /\ Len(sleeps[U]) >= i =>
                 /\ sleeps[U][i] % 1000 = 0
                 /\ sleeps[U][i] \div 1000 = WaitSeconds(U, cmds[U][i])
    /\ (Len(cmds[U]) > 0 /\ Last(cmds[U]).tag = "Wait") =>
         (~Returned(U) /\ result[U] = Running)

(***************************************************************************)
(* C29: no iteration cap.  run returns only after a Sync or a Swap has     *)
(* been processed or after a device or decode error; while the service     *)
(* only answers Wait, fails or does not answer within timeout_ms, run      *)
(* goes on iterating and has not ended.                                    *)
(***************************************************************************)
Stalls == {"Wait", "Timeout", "Err"}
OnlyStalls(p) == \A i \in 1..Len(cmds[p]) : cmds[p][i].tag \in Stalls

C29_NoIterationCap ==
    /\ ReturnedOk(U) => (Len(cmds[U]) > 0 /\ Last(cmds[U]).tag \in {"Sync", "Swap"})
    /\ (OnlyStalls(U) /\ ~DeviceErred(U)) => (pc[U] # "done" /\ result[U] = Running)

(***************************************************************************)
(* C30: no partial messages on the Serial service.  Serial::request        *)
(* returns a Command only when a complete frame has been received from the *)
(* peer: after a read that delivered no bytes the request is rejected with *)
(* an error, and no Command is decoded from what the frame buffer held     *)
(* before, such as the Status just encoded into it.                        *)
(***************************************************************************)
\* The Commands carried by the frames the peer sends.
PeerCommands == {de_command(f).val : f \in {g \in WireFrames : de_command(g).ok}}

C30_NoPartialMessages ==
    \A i \in 1..Len(cmds[B]) :
        cmds[B][i].tag \notin {"Timeout", "Err"} => cmds[B][i] \in PeerCommands

(***************************************************************************)
(* C31: the race is biased towards the timer.  When the timer is ready at  *)
(* the poll, with or without a ready response, the iteration is handled as *)
(* a timeout: no device operation, no state change, the Command is         *)
(* dropped; when the response wins the timer has no effect on the          *)
(* iteration.                                                              *)
(***************************************************************************)
TimerReady(p) == svc[p].timer_at = Len(sent[p])
ResponseReady(p) == svc[p].resp_at = Len(sent[p])
Raced(p) == Len(sent[p]) > 0 /\ Len(cmds[p]) = Len(sent[p])

C31_RaceBiasedToTimer ==
    /\ [](Raced(U) => (TimerReady(U) <=> Last(cmds[U]) = TimedOut))
    /\ [](Raced(U) /\ ~TimerReady(U) => Last(cmds[U]) = svc[U].response)
    /\ [][(pc[U] = "race" /\ TimerReady(U)) =>
            /\ pc'[U] \in {"race", "delay"}
            /\ devlog' = devlog
            /\ state' = state
            /\ next_state' = next_state
            /\ result' = result]_vars
    /\ [][(pc[U] = "delay" /\ Last(cmds[U]) = TimedOut) =>
            (state' = state /\ devlog' = devlog)]_vars

\* Both futures were ready in the second iteration: it was a timeout, the
\* ready Swap was dropped and the device saw nothing but status.
C31_Witness ==
    /\ Len(sent[U]) = 2
    /\ TimerReady(U)
    /\ ResponseReady(U)
    /\ svc[U].response.tag = "Swap"
    /\ Last(cmds[U]) = TimedOut
    /\ pc[U] = "loop"
    /\ devlog[U] = <<CallStatus>>

(***************************************************************************)
(* C32: for every poll hint p >= 1 received in a Wait the updater sleeps   *)
(* exactly p * 1000 milliseconds before the next Status; the 32-bit        *)
(* product poll * 1000 never overflows or wraps.                           *)
(***************************************************************************)
C32_PollNeverOverflows ==
    /\ result[U] # Panicked
    /\ \A i \in 1..Len(cmds[U]) :
         (cmds[U][i].tag = "Wait" /\ IsSome(cmds[U][i].poll) /\ cmds[U][i].poll[1] >= 1) =>
            /\ Len(sent[U]) > i => Len(sleeps[U]) >= i
            /\ Len(sleeps[U]) >= i =>
                 /\ sleeps[U][i] % 1000 = 0
                 /\ sleeps[U][i] \div 1000 = cmds[U][i].poll[1]

(***************************************************************************)
(* C33: after a timeout or a service error the updater sleeps backoff_ms   *)
(* milliseconds before it reissues the Status, for every backoff_ms, also  *)
(* below 1000 and not a multiple of 1000.                                  *)
(***************************************************************************)
\* Every iteration that does not end the run is followed by one sleep.
C33_BackoffInMilliseconds ==
    \A i \in 1..Len(cmds[U]) :
        (cmds[U][i].tag \in {"Timeout", "Err"} /\ Len(sleeps[U]) >= i) =>
            sleeps[U][i] = cfg[U].backoff_ms

(***************************************************************************)
(* C34: request/response ordering in the serial chain.  The Serial device  *)
(* emits its k-th Command frame only after the Serial service has sent its *)
(* k-th Status frame, every Status frame the service sends is consumed by  *)
(* the device side, and at most one Status is on the link at any time.     *)
(***************************************************************************)
\* Frames the Serial device of A has sent: one per write, update or synced.
CommandFrames(p) ==
    Cardinality({i \in 1..Len(devlog[p]) :
                   devlog[p][i].op \in {"write", "update", "synced"}
                   /\ ~IsFailed(devlog[p][i])})

\* Frames the Serial service of B has sent: one per Status, once written.
StatusFrames(p) == IF pc[p] = "race" THEN Len(sent[p]) - 1 ELSE Len(sent[p])

C34_RequestResponseOrdering ==
    /\ CommandFrames(A) <= StatusFrames(B)
    /\ Len(link[svc[B].tx]) <= 1
    /\ (Returned(A) /\ Returned(B)) => link[svc[B].tx] = <<>>

(***************************************************************************)
(* C35: cancellation discards in-flight I/O.  When the timer wins against  *)
(* a Serial request that has written its Status frame, the peer's reply to *)
(* the abandoned Status is discarded: every request returns the reply to   *)
(* its own Status.  The peer answers the Status frames in order, so the    *)
(* k-th request must return the k-th reply frame.                          *)
(***************************************************************************)
\* Reply frames read by the first k requests: all but the timed out ones.
RepliesRead(p, k) == Cardinality({i \in 1..k : cmds[p][i] # TimedOut})

C35_CancellationDiscardsReply ==
    \A k \in 1..Len(cmds[B]) :
        cmds[B][k] # TimedOut => RepliesRead(B, k) = k

(***************************************************************************)
(* C36: the Serial device relays faithfully.  In the serial chain the      *)
(* operations the Simulator of B observes (start, write, update, synced,   *)
(* with their arguments) are, in order, the operations updater A invoked   *)
(* on the Serial device.  As stated, every such call of A is also a wire   *)
(* exchange; in the code start() sends nothing, and the start that B's     *)
(* device observes is the one B's updater issues for a Write at offset 0.  *)
(***************************************************************************)
\* The device calls of a run after the initial status().
Operations(p) == SelectSeq(devlog[p], LAMBDA c : c.op # "status")

IsPrefix(s, t) == Len(s) <= Len(t) /\ SubSeq(t, 1, Len(s)) = s

\* Frames the Serial device of A has put on the wire: those still queued
\* and those the Serial service of B has read (a request of B that timed
\* out has read none).
FramesRelayed ==
    Len(link[dev[A].tx])
    + Cardinality({i \in 1..Len(cmds[B]) : cmds[B][i] # TimedOut})

Relays ==
    /\ IsPrefix(Operations(B), Operations(A))
    /\ (Returned(A) /\ Returned(B)) => Operations(B) = Operations(A)

C36_RelayAsStated == Relays /\ FramesRelayed = Len(Operations(A))

C36_FaithfulRelay ==
    /\ Relays
    /\ FramesRelayed = CommandFrames(A)
    /\ FramesRelayed = Len(Operations(A)) - Cardinality(Calls(A, "start"))

C36_Witness ==
    /\ Returned(A) /\ Returned(B)
    /\ Cardinality(Calls(B, "start")) = 1
    /\ Cardinality(Calls(B, "write")) = 2
    /\ Cardinality(Calls(B, "update")) = 1
    /\ Operations(B) = Operations(A)
    /\ FramesRelayed = 3

(***************************************************************************)
(* C37: when run returns DecodeVersion for a Write whose version does not  *)
(* fit the device's version type, device.start (for offset 0) and          *)
(* device.write have already been invoked with that command's version and  *)
(* data, and the updater's committed next_offset / next_version are the    *)
(* ones reported in the Status the command answered.                       *)
(***************************************************************************)
C37_DeviceModifiedBeforeDecodeError ==
    result[U] = ErrDecodeVersion =>
        \E c \in {Last(cmds[U])}, n \in {Len(devlog[U])} :
            /\ LongWrite(U, c)
            /\ n >= 2
            /\ devlog[U][n] = CallWrite(c.offset, c.data)
            /\ (c.offset = 0) <=> (devlog[U][n - 1] = CallStart(c.version))
            /\ (c.offset # 0) => devlog[U][n - 1].op # "start"
            /\ Last(sent[U]) = BuildStatus(state[U], dev[U].mtu)
            /\ state[U].next_version # Some(c.version)
            /\ next_state[U].next_version = state[U].next_version
            /\ next_state[U].current_version = state[U].current_version

\* A second block under a 17-byte version at offset 0, after one byte of
\* "2" was written: restarted and written, the state still says ("2", 1).
C37_Witness ==
    /\ result[U] = ErrDecodeVersion
    /\ Len(cmds[U]) = 2
    /\ cmds[U][1] = new_write(V2, 0, <<7>>, None)
    /\ cmds[U][2] = new_write(VLong, 0, <<7>>, None)
    /\ SubSeq(devlog[U], Len(devlog[U]) - 1, Len(devlog[U]))
         = <<CallStart(VLong), CallWrite(0, <<7>>)>>
    /\ state[U].next_version = Some(V2) /\ state[U].next_offset = 1

(***************************************************************************)
(* C38: for every Status (any version, any update version, any update      *)
(* offset, mtu absent, 0 or any value) InMemory::request returns Ok, and a *)
(* Write it returns lies inside the firmware: offset <= len(firmware), so  *)
(* len(firmware) - offset does not underflow, and the data is the slice    *)
(* firmware[offset .. offset + len(data)] with offset + len(data) <=       *)
(* len(firmware).                                                          *)
(***************************************************************************)
C38_RequestInRange ==
    (Len(sent[U]) = 1 /\ pc[U] # "race") =>
        /\ Len(cmds[U]) = 1
        /\ \E c \in {cmds[U][1]}, fw \in {Fw(U)} :
             /\ c.tag \in {"Sync", "Write", "Swap"}
             /\ c.tag = "Write" =>
                  /\ c.offset <= Len(fw)
                  /\ Len(c.data) <= Len(fw) - c.offset
                  /\ Len(c.data) <= unwrap_or(sent[U][1].mtu, 128)
                  /\ \A i \in 1..Len(c.data) : c.data[i] = fw[c.offset + i]

\* The last byte of a 20-byte firmware under an MTU of 4.
C38_Witness ==
    /\ Len(cmds[U]) = 1
    /\ Len(Fw(U)) = 20
    /\ sent[U][1].mtu = Some(4)
    /\ sent[U][1].update = Some([version |-> Target(U), offset |-> 19])
    /\ cmds[U][1].tag = "Write"
    /\ cmds[U][1].offset = 19 /\ Len(cmds[U][1].data) = 1

(***************************************************************************)
(* C39: when updater A drives the Serial device with the in-memory         *)
(* service, Serial::write is never invoked while the adapter's stored      *)
(* next_version is None, so its unwrap cannot panic: every write at an     *)
(* offset other than 0 comes after a received Status that carried an       *)
(* update record, or after a start() in the same run.  The adapter keeps   *)
(* the offset of the last update record it received: its next_offset is    *)
(* made non-zero by nothing else.                                          *)
(***************************************************************************)
StartedInRun(i) ==
    \E j \in 1..(i - 1) :
        /\ devlog[A][j].op = "start" /\ ~IsFailed(devlog[A][j])
        /\ \A k \in j..i : devlog[A][k].op # "status"

\* The Status frame that status() is about to read carries an update.
UpdateArrives ==
    /\ pc[A] = "init"
    /\ Link_can_read(dev[A].rx)
    /\ \E s \in {de_status(Head(link[dev[A].rx]))} : s.ok /\ IsSome(s.val.update)

UpdateReceived == dev[A].status.next_offset # 0

C39_WriteHasVersion ==
    /\ [](result[A] # Panicked)
    /\ [](pc[A] = "write" => IsSome(dev[A].status.next_version))
    /\ [][(dev'[A].status.next_offset # dev[A].status.next_offset
              /\ dev'[A].status.next_offset # 0) => UpdateArrives]_vars
    /\ [][(dev'[A].status.next_version # dev[A].status.next_version)
              => (UpdateArrives \/ pc[A] = "start")]_vars
    /\ [](\A i \in Calls(A, "write") :
            (i = Len(devlog[A]) /\ devlog[A][i].offset # 0)
                => (UpdateReceived \/ StartedInRun(i)))

\* A second run of A resumes from a Status with an update record: a write
\* past offset 0 with no start in that run; its first run began with start.
C39_Witness ==
    /\ Runs(A) = 2
    /\ UpdateReceived
    /\ \E i \in Calls(A, "write") :
         /\ i = Len(devlog[A])
         /\ devlog[A][i].offset # 0
         /\ ~IsFailed(devlog[A][i])
         /\ ~StartedInRun(i)
    /\ \E i \in Calls(A, "write") : devlog[A][i].offset # 0 /\ StartedInRun(i)

(***************************************************************************)
(* C40: update is idempotent across runs.  After run has returned Updated  *)
(* for a Simulator against the in-memory service targeting v, the          *)
(* Simulator's version equals v, and a second run with the same device and *)
(* service returns Synced after a single request, without invoking start,  *)
(* write or update.                                                        *)
(***************************************************************************)
\* Index in the device log of the status() call that opens run r.
RunStart(p, r) ==
    CHOOSE i \in Calls(p, "status") :
        Cardinality({j \in Calls(p, "status") : j <= i}) = r

\* The first run has returned Updated: its update call was its last call.
FirstUpdated(p) ==
    \/ (Runs(p) = 1 /\ Returned(p) /\ result[p].tag = "Updated")
    \/ (Runs(p) >= 2 /\ devlog[p][RunStart(p, 2) - 1].op = "update")

\* Requests of the first run that ended in Updated: up to the first Swap.
FirstRequests(p) ==
    CHOOSE k \in 1..Len(cmds[p]) :
        cmds[p][k].tag = "Swap" /\ \A j \in 1..(k - 1) : cmds[p][j].tag # "Swap"

C40_IdempotentAcrossRuns ==
    FirstUpdated(U) =>
        /\ dev[U].version = Target(U)
        /\ Runs(U) = 2 =>
             /\ \A i \in RunStart(U, 2)..Len(devlog[U]) :
                    devlog[U][i].op \in {"status", "synced"}
             /\ Len(sent[U]) <= FirstRequests(U) + 1
             /\ \A k \in (FirstRequests(U) + 1)..Len(cmds[U]) :
                    cmds[U][k].tag = "Sync"
             /\ Returned(U) =>
                    /\ result[U].tag = "Synced"
                    /\ Len(sent[U]) = FirstRequests(U) + 1
                    /\ Last(devlog[U]) = CallSynced

\* Three blocks and a swap in the first run, one Sync in the second.
C40_Witness ==
    /\ Runs(U) = 2 /\ Returned(U) /\ result[U].tag = "Synced"
    /\ Cardinality(Calls(U, "write")) = 3
    /\ Cardinality(Calls(U, "update")) = 1
    /\ Len(sent[U]) = 5
    /\ dev[U].version = V2 /\ Target(U) = V2

====
